---- MODULE Spec2Model ----
(***************************************************************************)
(* A model of Slate's deployment pipeline (src/commands/reload.rs), of its  *)
(* block-device resolver (src/system.rs), of the commands that change the  *)
(* configuration (src/commands/set.rs, wall.rs, init.rs), of the loading   *)
(* of slate.toml (src/config.rs), of its colors (src/color.rs,             *)
(* src/template.rs) and of the installer's first stage (src/preflight.rs,  *)
(* src/commands/forge.rs).                                                 *)
(*                                                                         *)
(* Spec            one run of reload() over a configuration drawn in Init  *)
(* SpecFair        Spec, with the run never stopping short of its end      *)
(* SpecDistinct    one run of reload() over apps with a directory each     *)
(* SpecDistinctFair  SpecDistinct, with the run never stopping short       *)
(* SpecTrace       one call of trace_to_physical_partition() over a sysfs  *)
(*                 tree drawn in TraceInit                                 *)
(* SpecStableId    one call of get_partuuid() or get_uuid() over a         *)
(*                 namespace directory drawn in IdInit                     *)
(* SpecMount       one call of get_root_device() over a mount table drawn  *)
(*                 in MountInit                                            *)
(* SpecCmd         one run of set(), wall_set() or init() with the         *)
(*                 arguments and the slate.toml drawn in CmdInit           *)
(* SpecLoad        one call of SlateConfig::load() on a slate.toml written *)
(*                 by hand, drawn in LoadInit                              *)
(* SpecColor       one call of Color::from_hex() on a string drawn in      *)
(*                 ColorInit, the five conversions of the color it         *)
(*                 returns, and from_hex() again on the hex form           *)
(* SpecSetSeq      one run of set() after another on one slate.toml        *)
(* SpecForge       one run of forge() on a host and with an operator drawn *)
(*                 in ForgeInit                                            *)
(* SpecGuard       a MountGuard under any calls of mount and unmount, and  *)
(*                 its drop                                                *)
(* SpecSetRace     two processes running set() on one slate.toml           *)
(* SpecReloadRace  two processes running reload() on one ~/.config         *)
(***************************************************************************)
EXTENDS Integers, Sequences, FiniteSets, TLC

VARIABLES
    \* ---- reload(): inputs
    apps,               \* config.apps, in declared order
    dry_run,            \* the dry_run argument
    \* ---- reload(): the world it acts on
    fs,                 \* the files of the destination tree: path -> content
    fsops,              \* every mutating filesystem call made so far, in order
    stdout,             \* the lines printed so far
    dispatched,         \* every send_reload_signal call made so far, in order
    \* ---- reload(): locals
    pc,                 \* the loop the run is in
    idx,                \* the position of that loop
    renders,            \* Vec<(App, String)>
    temp_files,         \* Vec<(PathBuf, PathBuf)>
    executed_signals,   \* HashSet<String>
    result,             \* what reload() returned, once it has
    \* ---- trace_to_physical_partition()
    sysfs,              \* /sys/class/block: device name -> record
    devfs,              \* the device nodes and symlinks that exist
    t_input,            \* the device_path the caller passed
    t_arg,              \* the device_path of the innermost invocation
    t_stack,            \* the device names of the enclosing invocations
    t_result,           \* what the outermost invocation returned, once it has
    \* ---- get_partuuid() / get_uuid()
    id_kind,            \* which of the two functions runs
    id_dir,             \* the namespace directory: whether it exists, its entries
    id_device,          \* the device_path the caller passed
    id_pc,              \* where the call is
    id_todo,            \* the entries read_dir has not yielded yet
    id_result,          \* what the call returned, once it has
    \* ---- get_root_device()
    mounts,             \* /proc/mounts: whether it can be read, its lines
    m_idx,              \* the line the loop is at
    m_result,           \* what the call returned, once it has
    \* ---- set(), wall_set(), init()
    cmd,                \* the command and its arguments
    slate_toml,         \* the file at config_path
    config,             \* the command's SlateConfig value, once it has one
    c_pc,               \* where the command is
    c_log,              \* the saves, reloads and prints made so far, in order
    c_result,           \* what the command returned, once it has
    \* ---- Color::from_hex()
    hex_arg,            \* the string the caller passed, its characters in order
    channels,           \* the channels parsed so far: r, g, b, a
    col_result,         \* what the call returned, once it has
    col_calls,          \* every string from_hex was passed, in order
    col_out,            \* what the conversions made of each parsed color, in order
    \* ---- two invocations of set(), or of reload(), at the same time
    procs,              \* the locals of each invocation
    shared,             \* what they share: slate.toml, or the destination tree
    order,              \* the events that tell one schedule from another, in order
    \* ---- forge() and its MountGuard
    f_in,               \* the device argument, the host and what the operator types
    f_pc,               \* where forge, or the user of the guard, is
    f_idx,              \* the position in the commands of that phase
    f_log,              \* every command run so far, in order, with its outcome
    guard,              \* MountGuard.mounts
    f_result            \* what forge() returned, once it has

reloadVars == <<apps, dry_run, fs, fsops, stdout, dispatched, pc, idx, renders,
                temp_files, executed_signals, result>>
traceVars  == <<sysfs, devfs, t_input, t_arg, t_stack, t_result>>
idVars     == <<id_kind, id_dir, id_device, id_pc, id_todo, id_result>>
mountVars  == <<mounts, m_idx, m_result>>
cmdVars    == <<cmd, slate_toml, config, c_pc, c_log, c_result>>
colorVars  == <<hex_arg, channels, col_result, col_calls, col_out>>
raceVars   == <<procs, shared, order>>
forgeVars  == <<f_in, f_pc, f_idx, f_log, guard, f_result>>
vars       == <<reloadVars, traceVars, idVars, mountVars, cmdVars, colorVars, raceVars,
                forgeVars>>

\* What a run of one part of the program leaves alone.
notReload == <<traceVars, idVars, mountVars, cmdVars, colorVars, raceVars, forgeVars>>
notTrace  == <<reloadVars, idVars, mountVars, cmdVars, colorVars, raceVars, forgeVars>>
notId     == <<reloadVars, traceVars, mountVars, cmdVars, colorVars, raceVars, forgeVars>>
notMount  == <<reloadVars, traceVars, idVars, cmdVars, colorVars, raceVars, forgeVars>>
notCmd    == <<reloadVars, traceVars, idVars, mountVars, colorVars, raceVars, forgeVars>>
notColor  == <<reloadVars, traceVars, idVars, mountVars, cmdVars, raceVars, forgeVars>>
notRace   == <<reloadVars, traceVars, idVars, mountVars, cmdVars, colorVars, forgeVars>>
notForge  == <<reloadVars, traceVars, idVars, mountVars, cmdVars, colorVars, raceVars>>

Range(s) == {s[k] : k \in DOMAIN s}

(***************************************************************************)
(* Bounds                                                                  *)
(***************************************************************************)
MaxApps == 2        \* longest config.apps list
NumDev  == 3        \* block devices known to the host
MaxDepth == 4       \* invocations the call stack holds before it overflows
MaxIds == 2         \* entries of a namespace directory
MaxLines == 2       \* lines of the mount table
MaxHashes == 2      \* '#' characters before a color string
MaxLen == 9         \* characters of a color string after them
MaxDistinct == 3    \* longest app list with a directory for each app
MaxCalls == 4       \* mount and unmount calls made on one MountGuard

(***************************************************************************)
(* config.rs: ReloadSignal and App                                         *)
(***************************************************************************)
Targets == {"waybar", "hyprctl"}

SigNone      == [type |-> "none",      signal |-> ""]
SigHyprctl   == [type |-> "hyprctl",   signal |-> ""]
SigHyprpaper == [type |-> "hyprpaper", signal |-> ""]
SigMakoctl   == [type |-> "makoctl",   signal |-> ""]
SigSignal(s) == [type |-> "signal",    signal |-> s]

ReloadSignal ==
    {SigHyprctl, SigHyprpaper, SigMakoctl, SigNone} \cup {SigSignal(s) : s \in Targets}

\* A path below ~/.config (abs = FALSE) or an absolute one, split as
\* Path::with_extension splits it: the part before the last dot and the part after.
Path(abs, stem, ext) == [abs |-> abs, stem |-> stem, ext |-> ext]

ConfigPaths ==
    { Path(FALSE, "waybar/style", "css"),
      Path(FALSE, "waybar/style", "tmp"),
      Path(FALSE, "waybar/style", ""),
      Path(FALSE, "waybar/config", ""),
      Path(TRUE,  "/etc/motd", "") }

\* name and template_path play no part in what reload() does to the
\* filesystem: an app is told apart by its place in config.apps.
App == [enabled : BOOLEAN, config_path : ConfigPaths, reload_signal : ReloadSignal]

\* init.rs writes this list as the first configuration.
InitApps ==
    << [enabled |-> TRUE, config_path |-> Path(FALSE, "waybar/style", "css"),
        reload_signal |-> SigSignal("waybar")],
       [enabled |-> TRUE, config_path |-> Path(FALSE, "waybar/config", ""),
        reload_signal |-> SigSignal("waybar")] >>

AppLists == UNION {[1..n -> App] : n \in 0..MaxApps}

(***************************************************************************)
(* reload.rs: path arithmetic                                              *)
(***************************************************************************)
\* config_root.join(&app.config_path): an absolute config_path replaces the root.
Target(app) == app.config_path

\* target.with_extension("tmp"): the extension is replaced, not appended to.
with_extension(p, e) == [p EXCEPT !.ext = e]

TempOf(target) == with_extension(target, "tmp")

AllPaths == ConfigPaths \cup {TempOf(p) : p \in ConfigPaths}

\* target.strip_prefix(&config_root) succeeds for paths below the root only.
strip_prefix_ok(target) == ~target.abs

(***************************************************************************)
(* File contents                                                           *)
(***************************************************************************)
Absent       == [kind |-> "absent",  app |-> 0]
Old          == [kind |-> "old",     app |-> 0]
Rendered(a)  == [kind |-> "render",  app |-> a]  \* the text rendered for apps[a]
Partial(a)   == [kind |-> "partial", app |-> a]  \* a write of it that broke off

\* Before the run every destination holds what an earlier run left there and
\* no temp file is left over.
InitFs == [p \in AllPaths |-> IF p \in ConfigPaths THEN Old ELSE Absent]

(***************************************************************************)
(* reload.rs: what reload() returns                                        *)
(***************************************************************************)
Running == [tag |-> "Running", origin |-> "", committed |-> {}, not_committed |-> {}]
Ok      == [tag |-> "Ok",      origin |-> "", committed |-> {}, not_committed |-> {}]
\* Every error leaves through `?`: the anyhow::Error wraps the io::Error (or the
\* tera error with the template's name as context) and names no destination.
Err(origin) == [tag |-> "Err", origin |-> origin, committed |-> {}, not_committed |-> {}]

FsOp(op, path, ok) == [op |-> op, path |-> path, ok |-> ok]

(***************************************************************************)
(* reload.rs: the dedup key of a reload signal                             *)
(***************************************************************************)
\* sig_key keyed by the target name alone.
sig_key_NoPrefix(signal) ==
    CASE signal.type = "hyprctl"   -> "hyprctl"
      [] signal.type = "hyprpaper" -> "hyprpaper"
      [] signal.type = "signal"    -> signal.signal
      [] signal.type = "makoctl"   -> "makoctl"

sig_key(signal) ==
    CASE signal.type = "hyprctl"   -> "hyprctl"
      [] signal.type = "hyprpaper" -> "hyprpaper"
      [] signal.type = "signal"    -> "signal:" \o signal.signal
      [] signal.type = "makoctl"   -> "makoctl"

(***************************************************************************)
(* reload.rs: reload(), one action per loop iteration and outcome          *)
(***************************************************************************)
AppOf(r) == apps[r]          \* renders holds the place of each rendered app

\* Lines 9-24: the config file does not load, the home or config directory
\* cannot be determined, or the template engine cannot be built; `?` returns
\* the error.  Nothing has been written.
SetupFail ==
    /\ pc = "Setup"
    /\ result' = Err("setup")
    /\ pc' = "Done"
    /\ UNCHANGED <<apps, dry_run, fs, fsops, stdout, dispatched, idx, renders,
                   temp_files, executed_signals>>

\* Lines 9-28: config loaded, engine built, renders = Vec::new().
SetupOk ==
    /\ pc = "Setup"
    /\ pc' = "Rendering"
    /\ UNCHANGED <<apps, dry_run, fs, fsops, stdout, dispatched, idx, renders,
                   temp_files, executed_signals, result>>

\* RenderSkip without the test of enabled before it: the app is rendered.
RenderSkip_RendersAnyway ==
    /\ pc = "Rendering" /\ idx <= Len(apps)
    /\ ~apps[idx].enabled
    /\ renders' = Append(renders, idx)
    /\ idx' = idx + 1
    /\ UNCHANGED <<apps, dry_run, fs, fsops, stdout, dispatched, pc,
                   temp_files, executed_signals, result>>

\* RenderSkip with the loop written so that the skip does not move on to the
\* next app.
RenderSkip_NoAdvance ==
    /\ pc = "Rendering" /\ idx <= Len(apps)
    /\ ~apps[idx].enabled
    /\ UNCHANGED <<apps, dry_run, fs, fsops, stdout, dispatched, pc, idx, renders,
                   temp_files, executed_signals, result>>

\* Step 1, lines 30-33: a disabled app is passed over.
RenderSkip ==
    /\ pc = "Rendering" /\ idx <= Len(apps)
    /\ ~apps[idx].enabled
    /\ idx' = idx + 1
    /\ UNCHANGED <<apps, dry_run, fs, fsops, stdout, dispatched, pc, renders,
                   temp_files, executed_signals, result>>

\* RenderOk as an earlier shape of the loop had it: each text is written to its
\* destination as soon as it is rendered.
RenderOk_WriteThrough ==
    /\ pc = "Rendering" /\ idx <= Len(apps)
    /\ apps[idx].enabled
    /\ renders' = Append(renders, idx)
    /\ fs' = [fs EXCEPT ![Target(apps[idx])] = Rendered(idx)]
    /\ fsops' = Append(fsops, FsOp("write", Target(apps[idx]), TRUE))
    /\ idx' = idx + 1
    /\ UNCHANGED <<apps, dry_run, stdout, dispatched, pc,
                   temp_files, executed_signals, result>>

\* Step 1, lines 35-40: the template renders and the text is kept in memory.
RenderOk ==
    /\ pc = "Rendering" /\ idx <= Len(apps)
    /\ apps[idx].enabled
    /\ renders' = Append(renders, idx)
    /\ idx' = idx + 1
    /\ UNCHANGED <<apps, dry_run, fs, fsops, stdout, dispatched, pc,
                   temp_files, executed_signals, result>>

\* Step 1, lines 36-38: engine.render fails and `?` returns the error.
RenderFail ==
    /\ pc = "Rendering" /\ idx <= Len(apps)
    /\ apps[idx].enabled
    /\ result' = Err("render")
    /\ pc' = "Done"
    /\ UNCHANGED <<apps, dry_run, fs, fsops, stdout, dispatched, idx, renders,
                   temp_files, executed_signals>>

\* Lines 43-50: the dry run prints every rendered output and returns Ok.
DryRunExit ==
    /\ pc = "Rendering" /\ idx > Len(apps)
    /\ dry_run
    /\ stdout' = stdout \o [k \in 1..Len(renders) |->
                               [line |-> "dry", path |-> Target(AppOf(renders[k])),
                                content |-> Rendered(renders[k])]]
    /\ result' = Ok
    /\ pc' = "Done"
    /\ UNCHANGED <<apps, dry_run, fs, fsops, dispatched, idx, renders,
                   temp_files, executed_signals>>

\* StartStaging without the dry_run test before it.
StartStaging_IgnoresDryRun ==
    /\ pc = "Rendering" /\ idx > Len(apps)
    /\ pc' = "Staging"
    /\ idx' = 1
    /\ UNCHANGED <<apps, dry_run, fs, fsops, stdout, dispatched, renders,
                   temp_files, executed_signals, result>>

\* Lines 52-54: otherwise the run goes on to write the temp files.
StartStaging ==
    /\ pc = "Rendering" /\ idx > Len(apps)
    /\ ~dry_run
    /\ pc' = "Staging"
    /\ idx' = 1
    /\ UNCHANGED <<apps, dry_run, fs, fsops, stdout, dispatched, renders,
                   temp_files, executed_signals, result>>

StageTarget == Target(AppOf(renders[idx]))
StageTemp   == TempOf(StageTarget)

\* Step 2, lines 60-62: create_dir_all(parent) fails and `?` returns the error.
StageMkdirFail ==
    /\ pc = "Staging" /\ idx <= Len(renders)
    /\ fsops' = Append(fsops, FsOp("create_dir_all", StageTemp, FALSE))
    /\ result' = Err("create_dir_all")
    /\ pc' = "Done"
    /\ UNCHANGED <<apps, dry_run, fs, stdout, dispatched, idx, renders,
                   temp_files, executed_signals>>

\* Step 2, line 64: fs::write(&temp, content) fails; it may have created or
\* truncated the file and written a part of the text before it did.
StageWriteFail ==
    /\ pc = "Staging" /\ idx <= Len(renders)
    /\ \E left \in {fs[StageTemp], Partial(renders[idx])} :
          fs' = [fs EXCEPT ![StageTemp] = left]
    /\ fsops' = fsops \o << FsOp("create_dir_all", StageTemp, TRUE),
                            FsOp("write", StageTemp, FALSE) >>
    /\ result' = Err("write")
    /\ pc' = "Done"
    /\ UNCHANGED <<apps, dry_run, stdout, dispatched, idx, renders,
                   temp_files, executed_signals>>

\* Step 2, lines 57-65: the temp file is written in full.
StageOk ==
    /\ pc = "Staging" /\ idx <= Len(renders)
    /\ fs' = [fs EXCEPT ![StageTemp] = Rendered(renders[idx])]
    /\ fsops' = fsops \o << FsOp("create_dir_all", StageTemp, TRUE),
                            FsOp("write", StageTemp, TRUE) >>
    /\ temp_files' = Append(temp_files, [temp |-> StageTemp, target |-> StageTarget])
    /\ idx' = idx + 1
    /\ UNCHANGED <<apps, dry_run, stdout, dispatched, pc, renders,
                   executed_signals, result>>

\* Lines 68-70: every temp file is written; the renames begin.
StartCommit ==
    /\ pc = "Staging" /\ idx > Len(renders)
    /\ pc' = "Committing"
    /\ idx' = 1
    /\ UNCHANGED <<apps, dry_run, fs, fsops, stdout, dispatched, renders,
                   temp_files, executed_signals, result>>

\* rename(2): the source takes the place of the destination; renaming a file
\* onto itself changes nothing.
Renamed(f, from, to) ==
    IF from = to THEN f ELSE [f EXCEPT ![to] = f[from], ![from] = Absent]

\* CommitRenameFail with the error dropped instead of returned.
CommitRenameFail_Ignored ==
    /\ pc = "Committing" /\ idx <= Len(temp_files)
    /\ fsops' = Append(fsops, FsOp("rename", temp_files[idx].target, FALSE))
    /\ idx' = idx + 1
    /\ UNCHANGED <<apps, dry_run, fs, stdout, dispatched, pc, renders,
                   temp_files, executed_signals, result>>

\* Step 3, line 71: fs::rename fails (the temp file is gone, or the system
\* refuses the rename) and `?` returns the io::Error.
CommitRenameFail ==
    /\ pc = "Committing" /\ idx <= Len(temp_files)
    /\ fsops' = Append(fsops, FsOp("rename", temp_files[idx].target, FALSE))
    /\ result' = Err("rename")
    /\ pc' = "Done"
    /\ UNCHANGED <<apps, dry_run, fs, stdout, dispatched, idx, renders,
                   temp_files, executed_signals>>

\* Step 3, lines 71-72: the rename succeeds and the destination is printed.
CommitOk ==
    /\ pc = "Committing" /\ idx <= Len(temp_files)
    /\ fs[temp_files[idx].temp] # Absent
    /\ strip_prefix_ok(temp_files[idx].target)
    /\ fs' = Renamed(fs, temp_files[idx].temp, temp_files[idx].target)
    /\ fsops' = Append(fsops, FsOp("rename", temp_files[idx].target, TRUE))
    /\ stdout' = Append(stdout, [line |-> "committed", path |-> temp_files[idx].target,
                                 content |-> Absent])
    /\ idx' = idx + 1
    /\ UNCHANGED <<apps, dry_run, dispatched, pc, renders, temp_files,
                   executed_signals, result>>

\* Step 3, lines 71-72: the rename succeeds, but the destination does not lie
\* below config_root, so strip_prefix fails and `?` returns its error.
CommitStripPrefixFail ==
    /\ pc = "Committing" /\ idx <= Len(temp_files)
    /\ fs[temp_files[idx].temp] # Absent
    /\ ~strip_prefix_ok(temp_files[idx].target)
    /\ fs' = Renamed(fs, temp_files[idx].temp, temp_files[idx].target)
    /\ fsops' = Append(fsops, FsOp("rename", temp_files[idx].target, TRUE))
    /\ result' = Err("strip_prefix")
    /\ pc' = "Done"
    /\ UNCHANGED <<apps, dry_run, stdout, dispatched, idx, renders,
                   temp_files, executed_signals>>

\* Lines 74-77: every rename is done; the signal loop begins.
StartSignals ==
    /\ pc = "Committing" /\ idx > Len(temp_files)
    /\ pc' = "Signals"
    /\ idx' = 1
    /\ UNCHANGED <<apps, dry_run, fs, fsops, stdout, dispatched, renders,
                   temp_files, executed_signals, result>>

SignalHere == AppOf(renders[idx]).reload_signal

\* Step 4, lines 81-83: an app without a reload signal is only printed.
SignalNone ==
    /\ pc = "Signals" /\ idx <= Len(renders)
    /\ SignalHere = SigNone
    /\ stdout' = Append(stdout, [line |-> "no reload signal",
                                 path |-> Target(AppOf(renders[idx])), content |-> Absent])
    /\ idx' = idx + 1
    /\ UNCHANGED <<apps, dry_run, fs, fsops, dispatched, pc, renders, temp_files,
                   executed_signals, result>>

\* Step 4, line 95: the key is in executed_signals already; nothing is sent.
SignalDuplicate ==
    /\ pc = "Signals" /\ idx <= Len(renders)
    /\ SignalHere # SigNone
    /\ sig_key(SignalHere) \in executed_signals
    /\ idx' = idx + 1
    /\ UNCHANGED <<apps, dry_run, fs, fsops, stdout, dispatched, pc, renders,
                   temp_files, executed_signals, result>>

\* SignalSend without the insert into executed_signals.
SignalSend_NoInsert ==
    /\ pc = "Signals" /\ idx <= Len(renders)
    /\ AppOf(renders[idx]).reload_signal # SigNone
    /\ stdout' = Append(stdout, [line |-> sig_key(AppOf(renders[idx]).reload_signal),
                                 path |-> Target(AppOf(renders[idx])), content |-> Absent])
    /\ \E notified \in BOOLEAN :
          dispatched' = Append(dispatched, [signal |-> AppOf(renders[idx]).reload_signal,
                                            notified |-> notified])
    /\ idx' = idx + 1
    /\ UNCHANGED <<apps, dry_run, fs, fsops, pc, renders, temp_files,
                   executed_signals, result>>

\* SignalSend with the command's failure returned through `?` instead of
\* dropped by .ok().
SignalSend_Propagates ==
    /\ pc = "Signals" /\ idx <= Len(renders)
    /\ AppOf(renders[idx]).reload_signal # SigNone
    /\ sig_key(AppOf(renders[idx]).reload_signal) \notin executed_signals
    /\ executed_signals' = executed_signals \cup {sig_key(AppOf(renders[idx]).reload_signal)}
    /\ stdout' = Append(stdout, [line |-> sig_key(AppOf(renders[idx]).reload_signal),
                                 path |-> Target(AppOf(renders[idx])), content |-> Absent])
    /\ \E notified \in BOOLEAN :
          /\ dispatched' = Append(dispatched, [signal |-> AppOf(renders[idx]).reload_signal,
                                               notified |-> notified])
          /\ IF notified
             THEN idx' = idx + 1 /\ UNCHANGED <<pc, result>>
             ELSE pc' = "Done" /\ result' = Err("signal") /\ UNCHANGED idx
    /\ UNCHANGED <<apps, dry_run, fs, fsops, renders, temp_files>>

\* SignalSend with the newest action put before the ones dispatched so far.
SignalSend_Prepends ==
    /\ pc = "Signals" /\ idx <= Len(renders)
    /\ AppOf(renders[idx]).reload_signal # SigNone
    /\ sig_key(AppOf(renders[idx]).reload_signal) \notin executed_signals
    /\ executed_signals' = executed_signals \cup {sig_key(AppOf(renders[idx]).reload_signal)}
    /\ stdout' = Append(stdout, [line |-> sig_key(AppOf(renders[idx]).reload_signal),
                                 path |-> Target(AppOf(renders[idx])), content |-> Absent])
    /\ \E notified \in BOOLEAN :
          dispatched' = <<[signal |-> AppOf(renders[idx]).reload_signal,
                           notified |-> notified]>> \o dispatched
    /\ idx' = idx + 1
    /\ UNCHANGED <<apps, dry_run, fs, fsops, pc, renders, temp_files, result>>

\* Step 4, lines 95-96 and send_reload_signal: the key is new; the action is
\* printed, then the command is run and whatever it returns is dropped by
\* .ok(), so send_reload_signal returns Ok whether the target was notified.
SignalSend ==
    /\ pc = "Signals" /\ idx <= Len(renders)
    /\ SignalHere # SigNone
    /\ sig_key(SignalHere) \notin executed_signals
    /\ executed_signals' = executed_signals \cup {sig_key(SignalHere)}
    /\ stdout' = Append(stdout, [line |-> sig_key(SignalHere),
                                 path |-> Target(AppOf(renders[idx])), content |-> Absent])
    /\ \E notified \in BOOLEAN :
          dispatched' = Append(dispatched, [signal |-> SignalHere, notified |-> notified])
    /\ idx' = idx + 1
    /\ UNCHANGED <<apps, dry_run, fs, fsops, pc, renders, temp_files, result>>

\* Lines 102-103: "Reload complete."
Finish ==
    /\ pc = "Signals" /\ idx > Len(renders)
    /\ result' = Ok
    /\ pc' = "Done"
    /\ UNCHANGED <<apps, dry_run, fs, fsops, stdout, dispatched, idx, renders,
                   temp_files, executed_signals>>

(***************************************************************************)
(* system.rs: the host's block devices                                     *)
(***************************************************************************)
Devices == 1..NumDev        \* kernel names (dm-0, sda2, ...), numbered
NoName  == 0                \* a last path component that names no block device

\* A device path: the directory and the last component (file_name()); dir =
\* "/" with NoName is a path without a last component.
DevPath(dir, name) == [dir |-> dir, name |-> name]

\* A record of /sys/class/block: missing, or present with or without a slaves
\* directory that lists the names of the devices below it.  A stack has one
\* slave per layer; a listing of two is the aggregate (multi-slave) case.
SysMissing == [present |-> FALSE, slaves_dir |-> FALSE, slaves |-> {}]
SysRecord ==
    {SysMissing, [present |-> TRUE, slaves_dir |-> FALSE, slaves |-> {}]}
    \cup {[present |-> TRUE, slaves_dir |-> TRUE, slaves |-> S] :
             S \in {T \in SUBSET Devices : Cardinality(T) <= 2}}

\* Path::exists(): the path is a node, or a symlink whose target is one.
LinksFrom(p) == {l \in devfs.links : l.from = p}
exists(p) ==
    \/ p \in devfs.nodes
    \/ \E l \in LinksFrom(p) : l.to \in devfs.nodes

\* fs::canonicalize(): symlinks resolved; a node is its own canonical path.
canonicalize(p) ==
    IF p \in devfs.nodes THEN p ELSE (CHOOSE l \in LinksFrom(p) : TRUE).to

(***************************************************************************)
(* system.rs: trace_to_physical_partition(), one action per invocation     *)
(***************************************************************************)
TRunning     == [tag |-> "Running", err |-> "", path |-> DevPath("/", NoName)]
TOk(p)       == [tag |-> "Ok",      err |-> "", path |-> p]
TErr(e)      == [tag |-> "Err",     err |-> e,  path |-> DevPath("/", NoName)]
\* The recursion outgrew the stack: the process is killed.
TOverflow    == [tag |-> "Abort",   err |-> "stack overflow", path |-> DevPath("/", NoName)]

\* Lines 90-96: the path canonicalized if it exists, else taken as given.
real_path(p) == IF exists(p) THEN canonicalize(p) ELSE p

\* Lines 99-102: the last component of real_path.
device_name(p) == real_path(p).name

\* Lines 104-106: /sys/class/block/<device_name> exists.
sys_path_exists(n) == n \in Devices /\ sysfs[n].present

TraceActive == t_result = TRunning /\ Len(t_stack) < MaxDepth

\* Lines 99-101: the path has no last component.
TraceInvalidPath ==
    /\ TraceActive
    /\ real_path(t_arg).dir = "/"
    /\ t_result' = TErr("Invalid device path")
    /\ UNCHANGED <<sysfs, devfs, t_input, t_arg, t_stack>>

\* TraceSysfsMissing without the check of line 106: the name is returned as
\* if the device were the physical partition.
TraceSysfsMissing_Unchecked ==
    /\ TraceActive
    /\ real_path(t_arg).dir # "/"
    /\ ~sys_path_exists(device_name(t_arg))
    /\ t_result' = TOk(DevPath("/dev", device_name(t_arg)))
    /\ UNCHANGED <<sysfs, devfs, t_input, t_arg, t_stack>>

\* Lines 106-116: the device has no record in sysfs.
TraceSysfsMissing ==
    /\ TraceActive
    /\ real_path(t_arg).dir # "/"
    /\ ~sys_path_exists(device_name(t_arg))
    /\ t_result' = TErr("not found in sysfs")
    /\ UNCHANGED <<sysfs, devfs, t_input, t_arg, t_stack>>

\* TraceRecurse with a cap on the depth: a second layer is refused.
TraceRecurse_DepthCapped ==
    /\ TraceActive
    /\ real_path(t_arg).dir # "/"
    /\ sys_path_exists(device_name(t_arg))
    /\ sysfs[device_name(t_arg)].slaves_dir
    /\ sysfs[device_name(t_arg)].slaves # {}
    /\ IF Len(t_stack) >= 1
       THEN t_result' = TErr("too deep") /\ UNCHANGED <<t_arg, t_stack>>
       ELSE /\ \E slave_name \in sysfs[device_name(t_arg)].slaves :
                  t_arg' = DevPath("/dev", slave_name)
            /\ t_stack' = Append(t_stack, device_name(t_arg))
            /\ UNCHANGED t_result
    /\ UNCHANGED <<sysfs, devfs, t_input>>

\* Lines 120-133: the slaves directory exists and lists an entry; the first
\* entry read_dir yields (the listing has no fixed order) is traced in turn.
TraceRecurse ==
    /\ TraceActive
    /\ real_path(t_arg).dir # "/"
    /\ sys_path_exists(device_name(t_arg))
    /\ sysfs[device_name(t_arg)].slaves_dir
    /\ \E slave_name \in sysfs[device_name(t_arg)].slaves :
          t_arg' = DevPath("/dev", slave_name)
    /\ t_stack' = Append(t_stack, device_name(t_arg))
    /\ UNCHANGED <<sysfs, devfs, t_input, t_result>>

\* TraceTerminal taking an empty slaves directory for a broken device.
TraceTerminal_EmptySlavesFails ==
    /\ TraceActive
    /\ real_path(t_arg).dir # "/"
    /\ sys_path_exists(device_name(t_arg))
    /\ ~sysfs[device_name(t_arg)].slaves_dir \/ sysfs[device_name(t_arg)].slaves = {}
    /\ t_result' = IF sysfs[device_name(t_arg)].slaves_dir
                   THEN TErr("no slaves")
                   ELSE TOk(DevPath("/dev", device_name(t_arg)))
    /\ UNCHANGED <<sysfs, devfs, t_input, t_arg, t_stack>>

\* Lines 122-138: no slaves directory, or an empty one: the device is the
\* physical partition and "/dev/<device_name>" is returned up the stack.
TraceTerminal ==
    /\ TraceActive
    /\ real_path(t_arg).dir # "/"
    /\ sys_path_exists(device_name(t_arg))
    /\ ~sysfs[device_name(t_arg)].slaves_dir \/ sysfs[device_name(t_arg)].slaves = {}
    /\ t_result' = TOk(DevPath("/dev", device_name(t_arg)))
    /\ UNCHANGED <<sysfs, devfs, t_input, t_arg, t_stack>>

\* Line 132 without end: nothing stops the recursion but the stack's size.
TraceOverflow ==
    /\ t_result = TRunning
    /\ Len(t_stack) >= MaxDepth
    /\ t_result' = TOverflow
    /\ UNCHANGED <<sysfs, devfs, t_input, t_arg, t_stack>>

\* The device paths a caller passes: a kernel node below /dev, a
\* /dev/mapper symlink to one, a node made elsewhere, a name that is no path
\* to a device (as /proc/mounts gives for overlay or tmpfs), and "/".
InputForms == {"node", "mapper", "elsewhere", "unknown", "root"}

InputPath(form, d) ==
    CASE form = "node"      -> DevPath("/dev", d)
      [] form = "mapper"    -> DevPath("/dev/mapper", NoName)
      [] form = "elsewhere" -> DevPath("/mnt", d)
      [] form = "unknown"   -> DevPath("", NoName)
      [] form = "root"      -> DevPath("/", NoName)

\* devtmpfs holds a node for every block device the kernel knows.
DevfsFor(sys, form, d) ==
    [ nodes |-> {DevPath("/dev", n) : n \in {m \in Devices : sys[m].present}}
                \cup (IF form = "elsewhere" /\ sys[d].present
                      THEN {DevPath("/mnt", d)} ELSE {}),
      links |-> IF form = "mapper"
                THEN {[from |-> DevPath("/dev/mapper", NoName), to |-> DevPath("/dev", d)]}
                ELSE {} ]

ReloadIdle ==
    /\ apps = <<>>
    /\ dry_run = FALSE
    /\ fs = InitFs
    /\ fsops = <<>>
    /\ stdout = <<>>
    /\ dispatched = <<>>
    /\ pc = "Idle"
    /\ idx = 1
    /\ renders = <<>>
    /\ temp_files = <<>>
    /\ executed_signals = {}
    /\ result = Running

TraceIdle ==
    /\ sysfs = <<>>
    /\ devfs = <<>>
    /\ t_input = <<>>
    /\ t_arg = <<>>
    /\ t_stack = <<>>
    /\ t_result = <<>>

IdIdle ==
    /\ id_kind = ""
    /\ id_dir = <<>>
    /\ id_device = <<>>
    /\ id_pc = "Idle"
    /\ id_todo = {}
    /\ id_result = <<>>

MountIdle ==
    /\ mounts = <<>>
    /\ m_idx = 0
    /\ m_result = <<>>

CmdIdle ==
    /\ cmd = <<>>
    /\ slate_toml = <<>>
    /\ config = <<>>
    /\ c_pc = "Idle"
    /\ c_log = <<>>
    /\ c_result = <<>>

ColorIdle ==
    /\ hex_arg = <<>>
    /\ channels = <<>>
    /\ col_result = <<>>
    /\ col_calls = <<>>
    /\ col_out = <<>>

RaceIdle ==
    /\ procs = <<>>
    /\ shared = <<>>
    /\ order = <<>>

ForgeIdle ==
    /\ f_in = <<>>
    /\ f_pc = "Idle"
    /\ f_idx = 0
    /\ f_log = <<>>
    /\ guard = <<>>
    /\ f_result = <<>>

TraceInit ==
    /\ sysfs \in [Devices -> SysRecord]
    /\ \E form \in InputForms, d \in Devices :
          /\ form \in {"unknown", "root"} => d = 1
          /\ devfs = DevfsFor(sysfs, form, d)
          /\ t_input = InputPath(form, d)
    /\ t_arg = t_input
    /\ t_stack = <<>>
    /\ t_result = TRunning
    /\ ReloadIdle
    /\ IdIdle
    /\ MountIdle
    /\ CmdIdle
    /\ ColorIdle
    /\ RaceIdle
    /\ ForgeIdle

TraceNext ==
    \/ TraceInvalidPath /\ UNCHANGED notTrace
    \/ TraceSysfsMissing /\ UNCHANGED notTrace
    \/ TraceRecurse /\ UNCHANGED notTrace
    \/ TraceTerminal /\ UNCHANGED notTrace
    \/ TraceOverflow /\ UNCHANGED notTrace

SpecTrace == TraceInit /\ [][TraceNext]_vars

(***************************************************************************)
(* system.rs: get_partuuid() and get_uuid(), the same code over the two    *)
(* namespace directories                                                   *)
(***************************************************************************)
IdKinds == {"partuuid", "uuid"}

\* Lines 143 and 175.
NsDir(kind) ==
    IF kind = "partuuid" THEN "/dev/disk/by-partuuid" ELSE "/dev/disk/by-uuid"

\* The file names of a namespace directory, numbered.  udev makes them of
\* hex digits and dashes, which to_string_lossy() returns as they are.
IdNames == 1..MaxIds

\* What a directory entry is: a file that is no symlink (read_link fails), or
\* a symlink and the target read_link returns for it: absolute, or relative
\* with the directories that lead to its last component.
NotLink == [link |-> FALSE, abs |-> FALSE, dir |-> "", name |-> NoName]
LinkTo(abs, dir, name) == [link |-> TRUE, abs |-> abs, dir |-> dir, name |-> name]

\* The targets met in a namespace directory: "../../<name>" as udev writes
\* them, "/dev/<name>", and "<name>" alone, which names a file of the
\* namespace directory itself; NoName stands for a device that is gone.
LinkTargets ==
    {LinkTo(FALSE, "../..", n) : n \in Devices \cup {NoName}}
    \cup {LinkTo(TRUE, "/dev", n) : n \in Devices}
    \cup {LinkTo(FALSE, ".", n) : n \in Devices}

\* Lines 158 and 187, Path::join(): an absolute target replaces the
\* directory, a relative one is appended to it; "../.." of either namespace
\* directory is /dev.
join(dir, target) ==
    IF target.abs THEN DevPath(target.dir, target.name)
    ELSE IF target.dir = "../.." THEN DevPath("/dev", target.name)
    ELSE DevPath(dir, target.name)

IdRunning == [tag |-> "Running", val |-> NoName, err |-> ""]
IdOk(name) == [tag |-> "Ok", val |-> name, err |-> ""]
IdErr(e) == [tag |-> "Err", val |-> NoName, err |-> e]

\* Lines 145-147 and 177-179: the namespace directory does not exist.
IdDirMissing ==
    /\ id_pc = "Start"
    /\ ~id_dir.exists
    /\ id_result' = IdErr("does not exist")
    /\ id_pc' = "Done"
    /\ UNCHANGED <<id_kind, id_dir, id_device, id_todo>>

\* Lines 150-151 and 182-183: the device path cannot be canonicalized.
IdCanonFail ==
    /\ id_pc = "Start"
    /\ id_dir.exists
    /\ ~exists(id_device)
    /\ id_result' = IdErr("Could not resolve device path")
    /\ id_pc' = "Done"
    /\ UNCHANGED <<id_kind, id_dir, id_device, id_todo>>

\* Lines 153 and 185: read_dir opens the listing.
IdOpen ==
    /\ id_pc = "Start"
    /\ id_dir.exists
    /\ exists(id_device)
    /\ id_todo' = DOMAIN id_dir.entries
    /\ id_pc' = "Scan"
    /\ UNCHANGED <<id_kind, id_dir, id_device, id_result>>

\* Lines 153-154 and 185-186: read_dir, or the read of an entry, fails and
\* the ? returns the io::Error.
IdReadDirFail ==
    /\ \/ id_pc = "Start" /\ id_dir.exists /\ exists(id_device)
       \/ id_pc = "Scan" /\ id_todo # {}
    /\ id_result' = IdErr("io")
    /\ id_pc' = "Done"
    /\ UNCHANGED <<id_kind, id_dir, id_device, id_todo>>

\* Lines 156-161 and 188-190: the entry is a symlink, its target joined to the
\* directory can be canonicalized and the outcome is the device's canonical
\* path.
canon_link_matches(e) ==
    /\ id_dir.entries[e].link
    /\ exists(join(NsDir(id_kind), id_dir.entries[e]))
    /\ canonicalize(join(NsDir(id_kind), id_dir.entries[e])) = canonicalize(id_device)

\* IdMatch comparing the last component of the link target with that of the
\* device, the target neither joined to the directory nor canonicalized.
IdMatch_ByFileName ==
    /\ id_pc = "Scan"
    /\ \E e \in id_todo :
          /\ id_dir.entries[e].link
          /\ id_dir.entries[e].name = canonicalize(id_device).name
          /\ id_result' = IdOk(e)
    /\ id_pc' = "Done"
    /\ UNCHANGED <<id_kind, id_dir, id_device, id_todo>>

\* Lines 161-164 and 190-192: the entry read_dir yields next matches; its
\* file name is returned.
IdMatch ==
    /\ id_pc = "Scan"
    /\ \E e \in id_todo :
          /\ canon_link_matches(e)
          /\ id_result' = IdOk(e)
    /\ id_pc' = "Done"
    /\ UNCHANGED <<id_kind, id_dir, id_device, id_todo>>

\* IdSkip giving up at an entry that is no symlink or leads nowhere.
IdSkip_FailsOnBadEntry ==
    /\ id_pc = "Scan"
    /\ \E e \in id_todo :
          /\ ~canon_link_matches(e)
          /\ id_todo' = id_todo \ {e}
          /\ IF id_dir.entries[e].link /\ exists(join(NsDir(id_kind), id_dir.entries[e]))
             THEN UNCHANGED <<id_pc, id_result>>
             ELSE id_pc' = "Done" /\ id_result' = IdErr("Invalid entry")
    /\ UNCHANGED <<id_kind, id_dir, id_device>>

\* Lines 156-166 and 188-194: the entry read_dir yields next is no symlink,
\* or cannot be canonicalized, or is another device: the loop goes on.
IdSkip ==
    /\ id_pc = "Scan"
    /\ \E e \in id_todo :
          /\ ~canon_link_matches(e)
          /\ id_todo' = id_todo \ {e}
    /\ UNCHANGED <<id_kind, id_dir, id_device, id_pc, id_result>>

\* Lines 170 and 200: the listing ended without a match.
IdNoMatch ==
    /\ id_pc = "Scan"
    /\ id_todo = {}
    /\ id_result' = IdErr("Could not find")
    /\ id_pc' = "Done"
    /\ UNCHANGED <<id_kind, id_dir, id_device, id_todo>>

\* The namespace directories a host has: none, or one with up to MaxIds
\* entries.
IdDirs ==
    {[exists |-> FALSE, entries |-> <<>>]}
    \cup {[exists |-> TRUE, entries |-> f] :
            f \in UNION {[N -> {NotLink} \cup LinkTargets] : N \in SUBSET IdNames}}

IdInit ==
    /\ id_kind \in IdKinds
    /\ id_dir \in IdDirs
    /\ \E form \in {"node", "mapper", "unknown"}, d \in Devices :
          /\ form = "unknown" => d = 1
          /\ devfs = [ nodes |-> {DevPath("/dev", n) : n \in Devices},
                       links |-> IF form = "mapper"
                                 THEN {[from |-> DevPath("/dev/mapper", NoName),
                                        to |-> DevPath("/dev", d)]}
                                 ELSE {} ]
          /\ id_device = InputPath(form, d)
    /\ id_pc = "Start"
    /\ id_todo = {}
    /\ id_result = IdRunning
    /\ sysfs = <<>>
    /\ t_input = <<>>
    /\ t_arg = <<>>
    /\ t_stack = <<>>
    /\ t_result = <<>>
    /\ ReloadIdle
    /\ MountIdle
    /\ CmdIdle
    /\ ColorIdle
    /\ RaceIdle
    /\ ForgeIdle

IdNext ==
    \/ IdDirMissing /\ UNCHANGED notId
    \/ IdCanonFail /\ UNCHANGED notId
    \/ IdOpen /\ UNCHANGED notId
    \/ IdReadDirFail /\ UNCHANGED notId
    \/ IdMatch /\ UNCHANGED notId
    \/ IdSkip /\ UNCHANGED notId
    \/ IdNoMatch /\ UNCHANGED notId

SpecStableId == IdInit /\ [][IdNext]_vars

(***************************************************************************)
(* system.rs: get_root_device()                                            *)
(***************************************************************************)
\* A line of /proc/mounts is its characters in order.  The lines a table is
\* drawn from: a root line, one with tabs, padding and further fields, lines
\* of no field and of one, mount points that begin with "/" without being
\* it, and a line whose device spec is "/".
MountLines ==
    { <<>>,
      <<"/">>,
      <<"b">>,
      <<"a", " ", "/">>,
      <<"b", " ", "/">>,
      <<" ", "b", "\t", " ", "/", " ", "x">>,
      <<"a", " ", "/", "a">>,
      <<"a", " ", "/", "/">>,
      <<"/", " ", "/", "a">>,
      <<"a", " ", "b", " ", "/">> }

MountTables ==
    {[readable |-> FALSE, lines |-> <<>>]}
    \cup {[readable |-> TRUE, lines |-> t] :
            t \in UNION {[1..n -> MountLines] : n \in 0..MaxLines}}

\* char::is_whitespace() on the characters of MountLines.
is_whitespace(c) == c \in {" ", "\t"}

\* Line 72, str::split_whitespace(): the maximal runs of characters that are
\* not whitespace, in order; cur is the run being read, acc those read.
RECURSIVE split_from(_, _, _, _)
split_from(line, i, cur, acc) ==
    IF i > Len(line)
    THEN IF cur = <<>> THEN acc ELSE Append(acc, cur)
    ELSE IF is_whitespace(line[i])
    THEN split_from(line, i + 1, <<>>, IF cur = <<>> THEN acc ELSE Append(acc, cur))
    ELSE split_from(line, i + 1, Append(cur, line[i]), acc)

split_whitespace(line) == split_from(line, 1, <<>>, <<>>)

MRunning == [tag |-> "Running", val |-> <<>>, err |-> ""]
MOk(device) == [tag |-> "Ok", val |-> device, err |-> ""]
MErr(e) == [tag |-> "Err", val |-> <<>>, err |-> e]

\* Line 69: read_to_string fails.
MountReadFail ==
    /\ m_result = MRunning
    /\ ~mounts.readable
    /\ m_result' = MErr("Failed to read /proc/mounts")
    /\ UNCHANGED <<mounts, m_idx>>

\* Lines 73-77: the line has two fields or more and the second is "/".
is_root_line(parts) == Len(parts) >= 2 /\ parts[2] = <<"/">>

\* MountFound taking every mount point that begins with "/".
MountFound_StartsWith ==
    /\ m_result = MRunning
    /\ mounts.readable
    /\ m_idx <= Len(mounts.lines)
    /\ LET parts == split_whitespace(mounts.lines[m_idx]) IN
          /\ Len(parts) >= 2
          /\ parts[2][1] = "/"
          /\ m_result' = MOk(parts[1])
    /\ UNCHANGED <<mounts, m_idx>>

\* Lines 71-79: the line is a root line; its first field is returned.
MountFound ==
    /\ m_result = MRunning
    /\ mounts.readable
    /\ m_idx <= Len(mounts.lines)
    /\ LET parts == split_whitespace(mounts.lines[m_idx]) IN
          /\ is_root_line(parts)
          /\ m_result' = MOk(parts[1])
    /\ UNCHANGED <<mounts, m_idx>>

\* Lines 71-81: the line is no root line; the loop goes to the next.
MountSkip ==
    /\ m_result = MRunning
    /\ mounts.readable
    /\ m_idx <= Len(mounts.lines)
    /\ ~is_root_line(split_whitespace(mounts.lines[m_idx]))
    /\ m_idx' = m_idx + 1
    /\ UNCHANGED <<mounts, m_result>>

\* Line 83: the lines ended without a root line.
MountNotFound ==
    /\ m_result = MRunning
    /\ mounts.readable
    /\ m_idx > Len(mounts.lines)
    /\ m_result' = MErr("Could not identify root filesystem in /proc/mounts")
    /\ UNCHANGED <<mounts, m_idx>>

MountInit ==
    /\ mounts \in MountTables
    /\ m_idx = 1
    /\ m_result = MRunning
    /\ ReloadIdle
    /\ TraceIdle
    /\ IdIdle
    /\ CmdIdle
    /\ ColorIdle
    /\ RaceIdle
    /\ ForgeIdle

MountNext ==
    \/ MountReadFail /\ UNCHANGED notMount
    \/ MountFound /\ UNCHANGED notMount
    \/ MountSkip /\ UNCHANGED notMount
    \/ MountNotFound /\ UNCHANGED notMount

SpecMount == MountInit /\ [][MountNext]_vars

(***************************************************************************)
(* config.rs: SlateConfig and the file it is loaded from and saved to      *)
(***************************************************************************)
\* An f32, named by its decimal form.
F32(text) == [f32 |-> text]

\* The [[apps]] of a slate.toml written by hand, every field of App (lines
\* 62-69) in it: an enabled app and a disabled one.
FileApps ==
    << [name |-> "waybar", enabled |-> TRUE,
        template_path |-> "waybar/style.css", config_path |-> "waybar/style.css",
        reload_signal |-> SigSignal("waybar")],
       [name |-> "hyprland", enabled |-> FALSE,
        template_path |-> "hypr/colors.conf", config_path |-> "hypr/colors.conf",
        reload_signal |-> SigHyprctl] >>

\* A slate.toml written by hand: the fields of Palette (lines 11-26) and
\* Hardware (lines 45-52), and the app list.
FileConfig(mode) ==
    [ palette |-> [ mode |-> mode,
                    bg_void |-> "#0b0c10",
                    bg_void_transparent |-> "#0b0c1099",
                    bg_surface |-> "#14161c",
                    bg_overlay |-> "#1a1d26",
                    foreground |-> "#aeb3c2",
                    foreground_dim |-> "#555b6e",
                    accent |-> "#ffffff",
                    accent_bright |-> "#7aa2cf" ],
      hardware |-> [ monitor_scale |-> F32("1.0"),
                     root_uuid |-> "0000-0001",
                     font_family |-> "Iosevka Nerd Font",
                     wallpaper |-> "~/Pictures/Wallpapers/mist-forest.png" ],
      apps |-> FileApps ]

\* What the file at config_path holds: nothing, text that toml::from_str
\* rejects, the serialization of a SlateConfig, or the cut-off text a failed
\* fs::write leaves.
NoFile == [state |-> "absent", config |-> <<>>]
Malformed == [state |-> "malformed", config |-> <<>>]
Truncated == [state |-> "truncated", config |-> <<>>]
Saved(c) == [state |-> "valid", config |-> c]

\* Lines 82-86, load(): the file is read and parsed.
load_ok(file) == file.state = "valid"

\* Lines 88-95, save(): what the file holds after a failed save: what it
\* held (to_string_pretty or create_dir_all failed, or fs::write could not
\* open it) or a cut-off text.
AfterFailedSave(file) == {file, Truncated}

CRunning == [tag |-> "Running", err |-> "", valid_keys |-> <<>>]
COk == [tag |-> "Ok", err |-> "", valid_keys |-> <<>>]
CErr(e) == [tag |-> "Err", err |-> e, valid_keys |-> <<>>]

Save == [ev |-> "save"]
Reload(dry) == [ev |-> "reload", dry_run |-> dry]
Printed(what) == [ev |-> "print", what |-> what]

(***************************************************************************)
(* config.rs: SlateConfig::load() on a file written by hand                *)
(***************************************************************************)
PaletteFields ==
    {"mode", "bg_void", "bg_void_transparent", "bg_surface", "bg_overlay",
     "foreground", "foreground_dim", "accent", "accent_bright"}
HardwareFields == {"monitor_scale", "root_uuid", "font_family", "wallpaper"}

\* A value of a TOML table: a string, a float or an integer, by its text.
Toml(type, text) == [type |-> type, text |-> text]

\* What a file gives a field: a string of the user's, or for monitor_scale
\* a float, an integer or a string; palette.mode may be an integer too.
ValuesFor(field) ==
    CASE field = "monitor_scale" ->
            {Toml("float", "1.5"), Toml("integer", "2"), Toml("string", "big")}
      [] field = "mode" -> {Toml("string", "matugen"), Toml("integer", "1")}
      [] OTHER -> {Toml("string", "written " \o field)}

\* The tables that hold some of fields, each with a value of its own; varied
\* is the field of them that has more than one.
TablesOver(fields, varied) ==
    {[f \in have |-> IF f = varied THEN v ELSE CHOOSE w \in ValuesFor(f) : TRUE] :
        have \in SUBSET fields, v \in ValuesFor(varied)}

\* A text toml::from_str can take apart: the [palette] and [hardware] tables,
\* each there or not, and whether [[apps]] or apps = [] is.
TomlText(palette, hardware, has_apps) ==
    [state |-> "toml", palette |-> palette, hardware |-> hardware, has_apps |-> has_apps]

\* A table the text does not hold.
NoTable == [no_table |-> TRUE]

\* Lines 12-25 and 48-51, #[serde(default = ...)], with lines 28-42 and 54-60.
serde_default(field) ==
    CASE field = "mode"           -> {"manual"}
      [] field = "bg_surface"     -> {"#14161c"}
      [] field = "bg_overlay"     -> {"#1a1d26"}
      [] field = "foreground_dim" -> {"#555b6e"}
      [] field = "accent_bright"  -> {"#7aa2cf"}
      [] field = "font_family"    -> {"Iosevka Nerd Font"}
      [] field = "wallpaper"      -> {"~/Pictures/Wallpapers/mist-forest.png"}
      [] OTHER                    -> {}

\* f32 takes a float or an integer, String a string only.
de_value(field, v) ==
    IF field = "monitor_scale"
    THEN CASE v.type = "float"   -> {F32(v.text)}
           [] v.type = "integer" -> {F32(v.text \o ".0")}
           [] OTHER              -> {}
    ELSE IF v.type = "string" THEN {v.text} ELSE {}

\* deserialize_field with every field optional: a missing String is empty, a
\* missing f32 is 1.
deserialize_field_AllOptional(table, field) ==
    IF field \in DOMAIN table THEN de_value(field, table[field])
    ELSE IF field = "monitor_scale" THEN {F32("1.0")}
    ELSE IF serde_default(field) # {} THEN serde_default(field) ELSE {""}

\* The derived Deserialize of lines 10 and 44 for one field: the value the
\* table gives it, or its serde default; empty for the error of a value of
\* the wrong type and of a missing field without a default.
deserialize_field(table, field) ==
    IF field \in DOMAIN table THEN de_value(field, table[field])
    ELSE serde_default(field)

deserialize_table(table, fields) ==
    IF table = NoTable \/ \E f \in fields : deserialize_field(table, f) = {}
    THEN {}
    ELSE {[f \in fields |-> CHOOSE v \in deserialize_field(table, f) : TRUE]}

\* Line 84, toml::from_str::<SlateConfig>: the config in a set, empty for an
\* error.  palette, hardware and apps have no default (lines 4-8).
from_str(text) ==
    IF text.state # "toml" \/ ~text.has_apps THEN {}
    ELSE {[palette |-> p, hardware |-> h] :
             p \in deserialize_table(text.palette, PaletteFields),
             h \in deserialize_table(text.hardware, HardwareFields)}

\* Line 83: read_to_string fails, there is no file at the path.
LoadNotFound ==
    /\ cmd.name = "load"
    /\ c_pc = "Start"
    /\ slate_toml = NoFile
    /\ c_result' = CErr("No such file or directory")
    /\ c_pc' = "Done"
    /\ UNCHANGED <<cmd, slate_toml, config, c_log>>

\* Line 84: toml::from_str fails and the ? returns its error.
LoadParseFail ==
    /\ cmd.name = "load"
    /\ c_pc = "Start"
    /\ slate_toml # NoFile
    /\ from_str(slate_toml) = {}
    /\ c_result' = CErr("toml::de::Error")
    /\ c_pc' = "Done"
    /\ UNCHANGED <<cmd, slate_toml, config, c_log>>

\* Lines 83-85.
LoadOk ==
    /\ cmd.name = "load"
    /\ c_pc = "Start"
    /\ slate_toml # NoFile
    /\ \E c \in from_str(slate_toml) : config' = c
    /\ c_result' = COk
    /\ c_pc' = "Done"
    /\ UNCHANGED <<cmd, slate_toml, c_log>>

\* The files load is called on.
TomlFiles ==
    {NoFile, Malformed, Truncated}
    \cup {TomlText(p, h, a) : p \in TablesOver(PaletteFields, "mode") \cup {NoTable},
                              h \in TablesOver(HardwareFields, "monitor_scale") \cup {NoTable},
                              a \in BOOLEAN}

\* One call of SlateConfig::load(config_path), as reload.rs:9, set.rs:6 and
\* wall.rs:28 make it.
LoadInit ==
    /\ cmd = [name |-> "load"]
    /\ slate_toml \in TomlFiles
    /\ config = <<>>
    /\ c_pc = "Start"
    /\ c_log = <<>>
    /\ c_result = CRunning
    /\ ReloadIdle
    /\ TraceIdle
    /\ IdIdle
    /\ MountIdle
    /\ ColorIdle
    /\ RaceIdle
    /\ ForgeIdle

LoadNext ==
    \/ LoadNotFound /\ UNCHANGED notCmd
    \/ LoadParseFail /\ UNCHANGED notCmd
    \/ LoadOk /\ UNCHANGED notCmd

SpecLoad == LoadInit /\ [][LoadNext]_vars

(***************************************************************************)
(* commands/set.rs: set()                                                  *)
(***************************************************************************)
\* A key is its runs of characters other than '.', with "." between them.
Dotted(section, field) == <<section, ".", field>>

\* Line 9, str::split('.'): the runs between the dots, empty ones kept; a
\* run is the sequence of what stands between two dots.
RECURSIVE split_dot_from(_, _, _, _)
split_dot_from(key, i, cur, acc) ==
    IF i > Len(key)
    THEN Append(acc, cur)
    ELSE IF key[i] = "."
    THEN split_dot_from(key, i + 1, <<>>, Append(acc, cur))
    ELSE split_dot_from(key, i + 1, Append(cur, key[i]), acc)

split_dot(key) == split_dot_from(key, 1, <<>>, <<>>)

\* A slice pattern of line 11: one string per part.
Pattern(section, field) == << <<section>>, <<field>> >>

\* Lines 18-41 and 46-54: the arms that store the value as a string.
StringArms ==
    {[section |-> "palette", field |-> f] :
        f \in {"bg_void", "bg_void_transparent", "bg_surface", "bg_overlay",
               "foreground", "foreground_dim", "accent", "accent_bright"}}
    \cup {[section |-> "hardware", field |-> f] :
        f \in {"font_family", "root_uuid", "wallpaper"}}

\* Lines 12-54: the patterns of the arms before the catch-all.
ArmPatterns ==
    {Pattern("palette", "mode"), Pattern("hardware", "monitor_scale")}
    \cup {Pattern(a.section, a.field) : a \in StringArms}

\* Line 56: the keys the message lists, in order.
ValidKeysListed ==
    << Dotted("palette", "mode"), Dotted("palette", "bg_void"),
       Dotted("palette", "bg_surface"), Dotted("palette", "bg_overlay"),
       Dotted("palette", "foreground"), Dotted("palette", "foreground_dim"),
       Dotted("palette", "accent"), Dotted("palette", "accent_bright"),
       Dotted("hardware", "monitor_scale"), Dotted("hardware", "font_family"),
       Dotted("hardware", "root_uuid"), Dotted("hardware", "wallpaper") >>

UnknownKey == [tag |-> "Err", err |-> "Unknown configuration key", valid_keys |-> ValidKeysListed]

\* Line 43, str::parse::<f32>(): a decimal number with an optional sign,
\* fraction and exponent, or inf, infinity or nan in any case; nothing else,
\* no surrounding whitespace.  The values of SetValues that parse, and what
\* they parse to.
parse_f32(value) ==
    CASE value = "1.5" -> {F32("1.5")}
      [] value = "2"   -> {F32("2.0")}
      [] value = "inf" -> {F32("inf")}
      [] value = "NaN" -> {F32("NaN")}
      [] OTHER         -> {}

\* Line 6: the file cannot be read or parsed.
SetLoadFail ==
    /\ cmd.name = "set"
    /\ c_pc = "Start"
    /\ ~load_ok(slate_toml)
    /\ c_result' = CErr("load")
    /\ c_pc' = "Done"
    /\ UNCHANGED <<cmd, slate_toml, config, c_log>>

\* Line 6.
SetLoad ==
    /\ cmd.name = "set"
    /\ c_pc = "Start"
    /\ load_ok(slate_toml)
    /\ config' = slate_toml.config
    /\ c_pc' = "Match"
    /\ UNCHANGED <<cmd, slate_toml, c_log, c_result>>

\* Lines 12-17 with a value that is a mode.
SetPaletteMode ==
    /\ cmd.name = "set"
    /\ c_pc = "Match"
    /\ split_dot(cmd.key) = Pattern("palette", "mode")
    /\ cmd.value \in {"manual", "matugen"}
    /\ config' = [config EXCEPT !.palette.mode = cmd.value]
    /\ c_pc' = "Mutated"
    /\ UNCHANGED <<cmd, slate_toml, c_log, c_result>>

\* SetPaletteModeInvalid storing the value as the other arms store theirs.
SetPaletteModeInvalid_Stores ==
    /\ cmd.name = "set"
    /\ c_pc = "Match"
    /\ split_dot(cmd.key) = Pattern("palette", "mode")
    /\ cmd.value \notin {"manual", "matugen"}
    /\ config' = [config EXCEPT !.palette.mode = cmd.value]
    /\ c_pc' = "Mutated"
    /\ UNCHANGED <<cmd, slate_toml, c_log, c_result>>

\* Lines 13-15: any other value for palette.mode.
SetPaletteModeInvalid ==
    /\ cmd.name = "set"
    /\ c_pc = "Match"
    /\ split_dot(cmd.key) = Pattern("palette", "mode")
    /\ cmd.value \notin {"manual", "matugen"}
    /\ c_result' = CErr("palette.mode must be \"manual\" or \"matugen\"")
    /\ c_pc' = "Done"
    /\ UNCHANGED <<cmd, slate_toml, config, c_log>>

\* SetStringField storing the value and losing the app list.
SetStringField_DropsApps ==
    /\ cmd.name = "set"
    /\ c_pc = "Match"
    /\ \E a \in StringArms :
          /\ split_dot(cmd.key) = Pattern(a.section, a.field)
          /\ config' = [config EXCEPT ![a.section][a.field] = cmd.value, !.apps = <<>>]
    /\ c_pc' = "Mutated"
    /\ UNCHANGED <<cmd, slate_toml, c_log, c_result>>

\* Lines 18-41 and 46-54.
SetStringField ==
    /\ cmd.name = "set"
    /\ c_pc = "Match"
    /\ \E a \in StringArms :
          /\ split_dot(cmd.key) = Pattern(a.section, a.field)
          /\ config' = [config EXCEPT ![a.section][a.field] = cmd.value]
    /\ c_pc' = "Mutated"
    /\ UNCHANGED <<cmd, slate_toml, c_log, c_result>>

\* Lines 42-45 with a value that parses.
SetMonitorScale ==
    /\ cmd.name = "set"
    /\ c_pc = "Match"
    /\ split_dot(cmd.key) = Pattern("hardware", "monitor_scale")
    /\ \E scale \in parse_f32(cmd.value) :
          config' = [config EXCEPT !.hardware.monitor_scale = scale]
    /\ c_pc' = "Mutated"
    /\ UNCHANGED <<cmd, slate_toml, c_log, c_result>>

\* SetMonitorScaleNotNumber falling back to a scale of 1 where the value
\* does not parse.
SetMonitorScaleNotNumber_Defaults ==
    /\ cmd.name = "set"
    /\ c_pc = "Match"
    /\ split_dot(cmd.key) = Pattern("hardware", "monitor_scale")
    /\ parse_f32(cmd.value) = {}
    /\ config' = [config EXCEPT !.hardware.monitor_scale = F32("1.0")]
    /\ c_pc' = "Mutated"
    /\ UNCHANGED <<cmd, slate_toml, c_log, c_result>>

\* Line 43: the value does not parse; the ? returns the error with its
\* context.
SetMonitorScaleNotNumber ==
    /\ cmd.name = "set"
    /\ c_pc = "Match"
    /\ split_dot(cmd.key) = Pattern("hardware", "monitor_scale")
    /\ parse_f32(cmd.value) = {}
    /\ c_result' = CErr("monitor_scale must be a number")
    /\ c_pc' = "Done"
    /\ UNCHANGED <<cmd, slate_toml, config, c_log>>

\* SetUnknownKey going on to the save where no arm matches.
SetUnknownKey_FallsThrough ==
    /\ cmd.name = "set"
    /\ c_pc = "Match"
    /\ split_dot(cmd.key) \notin ArmPatterns
    /\ c_pc' = "Mutated"
    /\ UNCHANGED <<cmd, slate_toml, config, c_log, c_result>>

\* Lines 55-57: no arm matches.
SetUnknownKey ==
    /\ cmd.name = "set"
    /\ c_pc = "Match"
    /\ split_dot(cmd.key) \notin ArmPatterns
    /\ c_result' = UnknownKey
    /\ c_pc' = "Done"
    /\ UNCHANGED <<cmd, slate_toml, config, c_log>>

\* Lines 60-65: the new configuration is printed, nothing is written.
SetDryRun ==
    /\ cmd.name = "set"
    /\ c_pc = "Mutated"
    /\ cmd.dry_run
    /\ c_log' = Append(c_log, Printed(config))
    /\ c_result' = COk
    /\ c_pc' = "Done"
    /\ UNCHANGED <<cmd, slate_toml, config>>

\* Line 68: the save fails.
SetSaveFail ==
    /\ cmd.name = "set"
    /\ c_pc = "Mutated"
    /\ ~cmd.dry_run
    /\ slate_toml' \in AfterFailedSave(slate_toml)
    /\ c_result' = CErr("save")
    /\ c_pc' = "Done"
    /\ UNCHANGED <<cmd, config, c_log>>

\* SetSave run whatever dry_run is.
SetSave_IgnoresDryRun ==
    /\ cmd.name = "set"
    /\ c_pc = "Mutated"
    /\ slate_toml' = Saved(config)
    /\ c_log' = Append(c_log, Save)
    /\ c_pc' = "Saved"
    /\ UNCHANGED <<cmd, config, c_result>>

\* Line 68.
SetSave ==
    /\ cmd.name = "set"
    /\ c_pc = "Mutated"
    /\ ~cmd.dry_run
    /\ slate_toml' = Saved(config)
    /\ c_log' = Append(c_log, Save)
    /\ c_pc' = "Saved"
    /\ UNCHANGED <<cmd, config, c_result>>

\* SetReload putting the file back as a hand-written one when reload fails.
SetReload_RollsBack ==
    /\ cmd.name = "set"
    /\ c_pc = "Saved"
    /\ c_log' = Append(c_log, Reload(FALSE))
    /\ \/ c_result' = COk /\ UNCHANGED slate_toml
       \/ c_result' = CErr("reload") /\ slate_toml' = Saved(FileConfig("manual"))
    /\ c_pc' = "Done"
    /\ UNCHANGED <<cmd, config>>

\* Line 73: reload(config_path, false); what it returns, set returns.
SetReload ==
    /\ cmd.name = "set"
    /\ c_pc = "Saved"
    /\ c_log' = Append(c_log, Reload(FALSE))
    /\ c_result' \in {COk, CErr("reload")}
    /\ c_pc' = "Done"
    /\ UNCHANGED <<cmd, slate_toml, config>>

\* The keys and values a caller passes: every section with every field, keys
\* of one part and of three, keys with empty parts, with no dot and with two
\* in a row, and the empty key.
KeySections == {"palette", "hardware", "apps"}
KeyFields ==
    {"mode", "bg_void", "bg_void_transparent", "bg_surface", "bg_overlay",
     "foreground", "foreground_dim", "accent", "accent_bright",
     "monitor_scale", "font_family", "root_uuid", "wallpaper", "enabled"}
SetKeys ==
    {Dotted(a, b) : a \in KeySections, b \in KeyFields}
    \cup {<<a>> : a \in KeySections \cup {"mode", "accent"}}
    \cup {<<a, ".", b, ".", c>> :
            a \in KeySections, b \in {"accent", "mode", "waybar"}, c \in {"accent", "enabled"}}
    \cup { <<>>, <<".">>, <<"palette", ".">>, <<".", "accent">>,
           <<"palette", "accent">>, <<"palette", ".", ".", "accent">>,
           <<"palette", ".", "accent", ".">> }
SetValues ==
    {"manual", "matugen", "#5f87af", "1.5", "2", "inf", "NaN", "", "1,5", " 1.5", "abc"}

SetCmd(key, value, dry) ==
    [name |-> "set", key |-> key, value |-> value, dry_run |-> dry]

(***************************************************************************)
(* commands/set.rs: one set() after another on the same slate.toml         *)
(***************************************************************************)
\* The keys and values of the calls: the mode, a string field, the scale and
\* a key no arm matches; the two modes, other words, a number, nothing.
SeqKeys ==
    {Dotted("palette", "mode"), Dotted("palette", "accent"),
     Dotted("hardware", "monitor_scale"), Dotted("apps", "mode")}
SeqValues == {"manual", "matugen", "Manual", "dark", "", "1.5"}
SeqCmds == {SetCmd(k, v, d) : k \in SeqKeys, v \in SeqValues, d \in BOOLEAN}

\* main.rs lines 88-95: the process has ended and slate is run again with
\* set; nothing but the file is carried over.
SetAgain ==
    /\ cmd.name = "set"
    /\ c_pc = "Done"
    /\ cmd' \in SeqCmds
    /\ config' = <<>>
    /\ c_pc' = "Start"
    /\ c_log' = <<>>
    /\ c_result' = CRunning
    /\ UNCHANGED slate_toml

SetSeqInit ==
    /\ cmd \in SeqCmds
    /\ slate_toml \in {Saved(FileConfig("manual")), Saved(FileConfig("matugen"))}
    /\ config = <<>>
    /\ c_pc = "Start"
    /\ c_log = <<>>
    /\ c_result = CRunning
    /\ ReloadIdle
    /\ TraceIdle
    /\ IdIdle
    /\ MountIdle
    /\ ColorIdle
    /\ RaceIdle
    /\ ForgeIdle

SetSeqNext ==
    \/ SetLoadFail /\ UNCHANGED notCmd
    \/ SetLoad /\ UNCHANGED notCmd
    \/ SetPaletteMode /\ UNCHANGED notCmd
    \/ SetPaletteModeInvalid /\ UNCHANGED notCmd
    \/ SetStringField /\ UNCHANGED notCmd
    \/ SetMonitorScale /\ UNCHANGED notCmd
    \/ SetMonitorScaleNotNumber /\ UNCHANGED notCmd
    \/ SetUnknownKey /\ UNCHANGED notCmd
    \/ SetDryRun /\ UNCHANGED notCmd
    \/ SetSaveFail /\ UNCHANGED notCmd
    \/ SetSave /\ UNCHANGED notCmd
    \/ SetReload /\ UNCHANGED notCmd
    \/ SetAgain /\ UNCHANGED notCmd

SpecSetSeq == SetSeqInit /\ [][SetSeqNext]_vars

(***************************************************************************)
(* commands/wall.rs: wall_set()                                            *)
(***************************************************************************)
\* The image a caller names: whether it exists, its file name, and whether
\* it lies in ~/Pictures/Wallpapers already.
WallImages ==
    [exists : BOOLEAN, file_name : {"new.png", "new.JPG", "new.txt", "new"},
     in_wall_dir : BOOLEAN]

\* Lines 16-20: the extension in lower case, "" without one.
lower_extension(file_name) ==
    CASE file_name = "new.png" -> "png"
      [] file_name = "new.JPG" -> "jpg"
      [] file_name = "new.txt" -> "txt"
      [] file_name = "new"     -> ""

\* Line 21.
SupportedFormats == {"png", "jpg", "jpeg", "webp", "bmp"}

\* Lines 126-134 over matugen's "#rrggbb" colors, and line 56: the first
\* seven characters of bg_void with "99".
MatugenPalette ==
    [ bg_void |-> "#101418",
      bg_void_transparent |-> "#10141899",
      bg_surface |-> "#1c2024",
      bg_overlay |-> "#272a2f",
      foreground |-> "#e0e2e8",
      foreground_dim |-> "#c2c7cf",
      accent |-> "#9ccbfb",
      accent_bright |-> "#124a73" ]

\* Lines 11-13.
WallNotFound ==
    /\ cmd.name = "wall"
    /\ c_pc = "Start"
    /\ ~cmd.image.exists
    /\ c_result' = CErr("Wallpaper not found")
    /\ c_pc' = "Done"
    /\ UNCHANGED <<cmd, slate_toml, config, c_log>>

\* Lines 16-26.
WallUnsupportedFormat ==
    /\ cmd.name = "wall"
    /\ c_pc = "Start"
    /\ cmd.image.exists
    /\ lower_extension(cmd.image.file_name) \notin SupportedFormats
    /\ c_result' = CErr("Unsupported image format")
    /\ c_pc' = "Done"
    /\ UNCHANGED <<cmd, slate_toml, config, c_log>>

\* Line 28: the file cannot be read or parsed.
WallLoadFail ==
    /\ cmd.name = "wall"
    /\ c_pc = "Start"
    /\ cmd.image.exists
    /\ lower_extension(cmd.image.file_name) \in SupportedFormats
    /\ ~load_ok(slate_toml)
    /\ c_result' = CErr("load")
    /\ c_pc' = "Done"
    /\ UNCHANGED <<cmd, slate_toml, config, c_log>>

\* Line 28.
WallLoad ==
    /\ cmd.name = "wall"
    /\ c_pc = "Start"
    /\ cmd.image.exists
    /\ lower_extension(cmd.image.file_name) \in SupportedFormats
    /\ load_ok(slate_toml)
    /\ config' = slate_toml.config
    /\ c_pc' = "Loaded"
    /\ UNCHANGED <<cmd, slate_toml, c_log, c_result>>

\* Lines 31-38: no home directory, create_dir_all fails, or the copy fails.
WallCopyFail ==
    /\ cmd.name = "wall"
    /\ c_pc = "Loaded"
    /\ \E e \in {"Could not determine home directory", "create_dir_all"}
               \cup (IF cmd.image.in_wall_dir THEN {} ELSE {"Failed to copy wallpaper"}) :
          c_result' = CErr(e)
    /\ c_pc' = "Done"
    /\ UNCHANGED <<cmd, slate_toml, config, c_log>>

\* Lines 31-49: the image is copied unless it is in place, and the
\* wallpaper field is set.
WallCopy ==
    /\ cmd.name = "wall"
    /\ c_pc = "Loaded"
    /\ c_log' = Append(c_log, Printed(IF cmd.image.in_wall_dir THEN "in place" ELSE "copied"))
    /\ config' = [config EXCEPT !.hardware.wallpaper =
                                    "~/Pictures/Wallpapers/" \o cmd.image.file_name]
    /\ c_pc' = IF config.palette.mode = "matugen" THEN "Matugen" ELSE "Mutated"
    /\ UNCHANGED <<cmd, slate_toml, c_result>>

\* Lines 52-65: matugen gave a palette.
WallMatugenOk ==
    /\ cmd.name = "wall"
    /\ c_pc = "Matugen"
    /\ config' = [config EXCEPT !.palette =
                     [f \in DOMAIN config.palette |->
                         IF f = "mode" THEN config.palette.mode ELSE MatugenPalette[f]]]
    /\ c_pc' = "Mutated"
    /\ UNCHANGED <<cmd, slate_toml, c_log, c_result>>

\* Lines 66-68: matugen failed; the palette stays.
WallMatugenFail ==
    /\ cmd.name = "wall"
    /\ c_pc = "Matugen"
    /\ c_log' = Append(c_log, Printed("matugen failed"))
    /\ c_pc' = "Mutated"
    /\ UNCHANGED <<cmd, slate_toml, config, c_result>>

\* Line 72: the save fails.
WallSaveFail ==
    /\ cmd.name = "wall"
    /\ c_pc = "Mutated"
    /\ slate_toml' \in AfterFailedSave(slate_toml)
    /\ c_result' = CErr("save")
    /\ c_pc' = "Done"
    /\ UNCHANGED <<cmd, config, c_log>>

\* Line 72.
WallSave ==
    /\ cmd.name = "wall"
    /\ c_pc = "Mutated"
    /\ slate_toml' = Saved(config)
    /\ c_log' = Append(c_log, Save)
    /\ c_pc' = "Saved"
    /\ UNCHANGED <<cmd, config, c_result>>

\* Line 77: reload(config_path, false); what it returns, wall_set returns.
WallReload ==
    /\ cmd.name = "wall"
    /\ c_pc = "Saved"
    /\ c_log' = Append(c_log, Reload(FALSE))
    /\ c_result' \in {COk, CErr("reload")}
    /\ c_pc' = "Done"
    /\ UNCHANGED <<cmd, slate_toml, config>>

(***************************************************************************)
(* commands/init.rs: init()                                                *)
(***************************************************************************)
\* Lines 27-61: the configuration init writes.
InitConfig ==
    [ palette |-> [ bg_void |-> "#0b0c10",
                    foreground |-> "#aeb3c2",
                    accent |-> "#ffffff" ],
      hardware |-> [ monitor_scale |-> F32("1.0"),
                     root_partuuid |-> "0000-0001",
                     font_family |-> "Iosevka Nerd Font" ],
      apps |-> InitApps ]

\* Lines 11-22: no home directory, create_dir_all fails, or the PARTUUID
\* cannot be detected.
InitPrepareFail ==
    /\ cmd.name = "init"
    /\ c_pc = "Start"
    /\ \E e \in {"Could not determine home directory", "create_dir_all", "detect_partuuid"} :
          c_result' = CErr(e)
    /\ c_pc' = "Done"
    /\ UNCHANGED <<cmd, slate_toml, config, c_log>>

\* Lines 11-61.
InitPrepare ==
    /\ cmd.name = "init"
    /\ c_pc = "Start"
    /\ config' = InitConfig
    /\ c_pc' = "Mutated"
    /\ UNCHANGED <<cmd, slate_toml, c_log, c_result>>

\* Line 63: the save fails.
InitSaveFail ==
    /\ cmd.name = "init"
    /\ c_pc = "Mutated"
    /\ slate_toml' \in AfterFailedSave(slate_toml)
    /\ c_result' = CErr("save")
    /\ c_pc' = "Done"
    /\ UNCHANGED <<cmd, config, c_log>>

\* Line 63.
InitSave ==
    /\ cmd.name = "init"
    /\ c_pc = "Mutated"
    /\ slate_toml' = Saved(config)
    /\ c_log' = Append(c_log, Save)
    /\ c_pc' = "Saved"
    /\ UNCHANGED <<cmd, config, c_result>>

\* Lines 68 and 75: current_dir or canonicalize fails, or the copy of the
\* templates does; the ? returns the error.
InitCopyFail ==
    /\ cmd.name = "init"
    /\ c_pc = "Saved"
    /\ \E e \in {"current_dir", "copy_dir_recursive"} : c_result' = CErr(e)
    /\ c_pc' = "Done"
    /\ UNCHANGED <<cmd, slate_toml, config, c_log>>

\* Lines 68-77: the templates are copied, or are not there to copy.
InitCopy ==
    /\ cmd.name = "init"
    /\ c_pc = "Saved"
    /\ \E what \in {"Templates copied", "templates/ not found"} :
          c_log' = Append(c_log, Printed(what))
    /\ c_pc' = "Copied"
    /\ UNCHANGED <<cmd, slate_toml, config, c_result>>

\* Line 81: reload(&config_path, false); an error is init's, too.
InitReload ==
    /\ cmd.name = "init"
    /\ c_pc = "Copied"
    /\ c_log' = Append(c_log, Reload(FALSE))
    /\ c_result' \in {COk, CErr("reload")}
    /\ c_pc' = "Done"
    /\ UNCHANGED <<cmd, slate_toml, config>>

\* main.rs:87-103 runs set and wall_set only when the file exists; init runs
\* with or without one.
CmdInit ==
    /\ \/ /\ cmd \in {SetCmd(k, v, d) : k \in SetKeys, v \in SetValues, d \in BOOLEAN}
          /\ slate_toml \in {Malformed, Saved(FileConfig("manual")), Saved(FileConfig("matugen"))}
       \/ /\ cmd \in {[name |-> "wall", image |-> i] : i \in WallImages}
          /\ slate_toml \in {Malformed, Saved(FileConfig("manual")), Saved(FileConfig("matugen"))}
       \/ /\ cmd = [name |-> "init"]
          /\ slate_toml \in {NoFile, Saved(FileConfig("manual"))}
    /\ config = <<>>
    /\ c_pc = "Start"
    /\ c_log = <<>>
    /\ c_result = CRunning
    /\ ReloadIdle
    /\ TraceIdle
    /\ IdIdle
    /\ MountIdle
    /\ ColorIdle
    /\ RaceIdle
    /\ ForgeIdle

CmdNext ==
    \/ SetLoadFail /\ UNCHANGED notCmd
    \/ SetLoad /\ UNCHANGED notCmd
    \/ SetPaletteMode /\ UNCHANGED notCmd
    \/ SetPaletteModeInvalid /\ UNCHANGED notCmd
    \/ SetStringField /\ UNCHANGED notCmd
    \/ SetMonitorScale /\ UNCHANGED notCmd
    \/ SetMonitorScaleNotNumber /\ UNCHANGED notCmd
    \/ SetUnknownKey /\ UNCHANGED notCmd
    \/ SetDryRun /\ UNCHANGED notCmd
    \/ SetSaveFail /\ UNCHANGED notCmd
    \/ SetSave /\ UNCHANGED notCmd
    \/ SetReload /\ UNCHANGED notCmd
    \/ WallNotFound /\ UNCHANGED notCmd
    \/ WallUnsupportedFormat /\ UNCHANGED notCmd
    \/ WallLoadFail /\ UNCHANGED notCmd
    \/ WallLoad /\ UNCHANGED notCmd
    \/ WallCopyFail /\ UNCHANGED notCmd
    \/ WallCopy /\ UNCHANGED notCmd
    \/ WallMatugenOk /\ UNCHANGED notCmd
    \/ WallMatugenFail /\ UNCHANGED notCmd
    \/ WallSaveFail /\ UNCHANGED notCmd
    \/ WallSave /\ UNCHANGED notCmd
    \/ WallReload /\ UNCHANGED notCmd
    \/ InitPrepareFail /\ UNCHANGED notCmd
    \/ InitPrepare /\ UNCHANGED notCmd
    \/ InitSaveFail /\ UNCHANGED notCmd
    \/ InitSave /\ UNCHANGED notCmd
    \/ InitCopyFail /\ UNCHANGED notCmd
    \/ InitCopy /\ UNCHANGED notCmd
    \/ InitReload /\ UNCHANGED notCmd

SpecCmd == CmdInit /\ [][CmdNext]_vars

(***************************************************************************)
(* color.rs: Color::from_hex()                                             *)
(***************************************************************************)
\* A &str is its characters in order.  The characters of the strings the
\* parser is given: hex digits of either case, a letter beyond f, the signs,
\* a space, '#', and a character that is not ASCII.
ColorChars == {"0", "9", "a", "F", "g", "+", "-", " ", "#", "é"}

\* The bytes of a character in UTF-8.
utf8_len(c) == IF c = "é" THEN 2 ELSE 1

\* str::len(): the length in bytes.
RECURSIVE byte_len(_)
byte_len(str) == IF str = <<>> THEN 0 ELSE utf8_len(Head(str)) + byte_len(Tail(str))

\* The byte index at which character k of str starts.
byte_start(str, k) == byte_len(SubSeq(str, 1, k - 1))

\* str::is_char_boundary(): the start of a character, or the end.
is_char_boundary(str, i) ==
    \/ i = byte_len(str)
    \/ \E k \in DOMAIN str : byte_start(str, k) = i

\* &str[from..to] with both ends on character boundaries.
slice(str, from, to) ==
    LET first == Cardinality({k \in DOMAIN str : byte_start(str, k) < from}) + 1
        last  == Cardinality({k \in DOMAIN str : byte_start(str, k) < to})
    IN  SubSeq(str, first, last)

\* Line 37, trim_start_matches('#'): every leading '#' is removed.
RECURSIVE trim_start_matches(_, _)
trim_start_matches(str, c) ==
    IF str # <<>> /\ Head(str) = c THEN trim_start_matches(Tail(str), c) ELSE str

\* The digits of {:x}, by value.
LowerHex == <<"0", "1", "2", "3", "4", "5", "6", "7", "8", "9",
              "a", "b", "c", "d", "e", "f">>
UpperHex == <<"0", "1", "2", "3", "4", "5", "6", "7", "8", "9",
              "A", "B", "C", "D", "E", "F">>

\* char::to_digit(16), the digit's value in a set, empty for no hex digit.
to_digit(c) ==
    {v \in 0..15 : c = LowerHex[v + 1] \/ c = UpperHex[v + 1]}

RECURSIVE digits_value(_, _)
digits_value(digits, acc) ==
    IF digits = <<>> THEN acc
    ELSE digits_value(Tail(digits), acc * 16 + (CHOOSE v \in to_digit(Head(digits)) : TRUE))

ParsedInt(v) == [ok |-> TRUE, val |-> v, kind |-> ""]
IntError(kind) == [ok |-> FALSE, val |-> 0, kind |-> kind]

\* u8::from_str_radix(src, 16): Empty for no character, InvalidDigit for a
\* sign alone; one leading '+' is taken off (a '-' is not, u8 has no sign);
\* every character left must be a hex digit; the value must fit eight bits.
from_str_radix(src) ==
    IF src = <<>> THEN IntError("Empty")
    ELSE IF src \in {<<"+">>, <<"-">>} THEN IntError("InvalidDigit")
    ELSE LET digits == IF Head(src) = "+" THEN Tail(src) ELSE src IN
         IF \E k \in DOMAIN digits : to_digit(digits[k]) = {} THEN IntError("InvalidDigit")
         ELSE IF digits_value(digits, 0) > 255 THEN IntError("PosOverflow")
         ELSE ParsedInt(digits_value(digits, 0))

ColRunning == [tag |-> "Running", err |-> "", color |-> <<>>]
ColOk(r, g, b, a) == [tag |-> "Ok", err |-> "", color |-> [r |-> r, g |-> g, b |-> b, a |-> a]]
ColErr(e) == [tag |-> "Err", err |-> e, color |-> <<>>]
\* A slice that does not end on a character boundary panics.
ColPanic == [tag |-> "Abort", err |-> "byte index is not a char boundary", color |-> <<>>]

\* Line 37.
trimmed == trim_start_matches(hex_arg, "#")

\* Lines 38-51: the channels the match arm parses, 0 for the catch-all.
wanted_channels ==
    CASE byte_len(trimmed) = 6 -> 3
      [] byte_len(trimmed) = 8 -> 4
      [] OTHER                 -> 0

\* Line 52: the length in bytes is neither 6 nor 8.
ColorInvalidFormat ==
    /\ col_result = ColRunning
    /\ wanted_channels = 0
    /\ col_result' = ColErr("InvalidFormat")
    /\ UNCHANGED <<hex_arg, channels, col_calls, col_out>>

\* The ends of the slice of the channel to parse next (lines 40-42, 46-49).
slice_from == 2 * Len(channels)
slice_to   == 2 * Len(channels) + 2

\* Lines 40-49: the slice of the next channel cuts a character in two.
ColorSlicePanic ==
    /\ col_result = ColRunning
    /\ Len(channels) < wanted_channels
    /\ ~(is_char_boundary(trimmed, slice_from) /\ is_char_boundary(trimmed, slice_to))
    /\ col_result' = ColPanic
    /\ UNCHANGED <<hex_arg, channels, col_calls, col_out>>

\* Lines 40-49: from_str_radix fails on the slice; the ? returns ParseError.
ColorParseError ==
    /\ col_result = ColRunning
    /\ Len(channels) < wanted_channels
    /\ is_char_boundary(trimmed, slice_from) /\ is_char_boundary(trimmed, slice_to)
    /\ ~from_str_radix(slice(trimmed, slice_from, slice_to)).ok
    /\ col_result' = ColErr("ParseError")
    /\ UNCHANGED <<hex_arg, channels, col_calls, col_out>>

\* Lines 40-49: the next channel is parsed.
ColorChannel ==
    /\ col_result = ColRunning
    /\ Len(channels) < wanted_channels
    /\ is_char_boundary(trimmed, slice_from) /\ is_char_boundary(trimmed, slice_to)
    /\ from_str_radix(slice(trimmed, slice_from, slice_to)).ok
    /\ channels' = Append(channels, from_str_radix(slice(trimmed, slice_from, slice_to)).val)
    /\ UNCHANGED <<hex_arg, col_result, col_calls, col_out>>

\* ColorOk with the alpha of the 8-digit arm dropped for the default.
ColorOk_OpaqueAlpha ==
    /\ col_result = ColRunning
    /\ wanted_channels # 0
    /\ Len(channels) = wanted_channels
    /\ col_result' = ColOk(channels[1], channels[2], channels[3], 255)
    /\ UNCHANGED <<hex_arg, channels, col_calls, col_out>>

\* Lines 43, 50 and 54: every channel is parsed; alpha is 255 without one.
ColorOk ==
    /\ col_result = ColRunning
    /\ wanted_channels # 0
    /\ Len(channels) = wanted_channels
    /\ col_result' = ColOk(channels[1], channels[2], channels[3],
                           IF wanted_channels = 4 THEN channels[4] ELSE 255)
    /\ UNCHANGED <<hex_arg, channels, col_calls, col_out>>

(***************************************************************************)
(* color.rs: the conversions, and template.rs: the filters that call them  *)
(***************************************************************************)
\* {}: a u8 in decimal, without padding.
RECURSIVE fmt_dec(_)
fmt_dec(n) ==
    IF n < 10 THEN <<LowerHex[n + 1]>>
    ELSE fmt_dec(n \div 10) \o <<LowerHex[(n % 10) + 1]>>

\* {:x}: the digits of fmt_02x without the padding to two.
fmt_02x_Unpadded(v) ==
    IF v < 16 THEN <<LowerHex[v + 1]>>
    ELSE <<LowerHex[(v \div 16) + 1], LowerHex[(v % 16) + 1]>>

\* {:02x}: a u8 in lowercase hex, padded with a zero to two digits.
fmt_02x(v) == <<LowerHex[(v \div 16) + 1], LowerHex[(v % 16) + 1]>>

\* {:.2} of a as f32 / 255.0: the quotient rounded to hundredths.  No a in
\* 0..255 has a / 255 within 0.00009 of a midpoint between two hundredths, so
\* neither the f32 division nor the rounding mode changes the digits.
fmt_2f(a) ==
    LET hundredths == (200 * a + 255) \div 510
    IN  fmt_dec(hundredths \div 100) \o <<".">>
        \o <<LowerHex[((hundredths % 100) \div 10) + 1], LowerHex[(hundredths % 10) + 1]>>

\* Line 58.
css_rgba(c) ==
    <<"r", "g", "b", "a", "(">> \o fmt_dec(c.r) \o <<",", " ">> \o fmt_dec(c.g)
    \o <<",", " ">> \o fmt_dec(c.b) \o <<",", " ">> \o fmt_2f(c.a) \o <<")">>

\* Line 62.
rofi(c) == <<"#">> \o fmt_02x(c.r) \o fmt_02x(c.g) \o fmt_02x(c.b) \o fmt_02x(c.a)

\* Line 66.
plymouth(c) == <<"0", "x">> \o fmt_02x(c.r) \o fmt_02x(c.g) \o fmt_02x(c.b)

\* Line 70.
hex(c) == <<"#">> \o fmt_02x(c.r) \o fmt_02x(c.g) \o fmt_02x(c.b)

\* Line 75.
hyprland(c) ==
    <<"r", "g", "b", "a", "(">> \o fmt_02x(c.r) \o fmt_02x(c.g) \o fmt_02x(c.b)
    \o fmt_02x(c.a) \o <<")">>

\* template.rs, lines 38-86: each filter hands the color from_hex returned to
\* its conversion; the five outputs of one color are kept together.
ColorEmit ==
    /\ col_result.tag = "Ok"
    /\ Len(col_out) < Len(col_calls)
    /\ col_out' = Append(col_out, [css_rgba |-> css_rgba(col_result.color),
                                   rofi     |-> rofi(col_result.color),
                                   plymouth |-> plymouth(col_result.color),
                                   hex      |-> hex(col_result.color),
                                   hyprland |-> hyprland(col_result.color)])
    /\ UNCHANGED <<hex_arg, channels, col_result, col_calls>>

\* template.rs, lines 68-76, applied to its own output (`x | hex | hex`):
\* from_hex is called on the string hex() made.
ColorReparse ==
    /\ col_result.tag = "Ok"
    /\ Len(col_out) = Len(col_calls)
    /\ Len(col_calls) = 1
    /\ hex_arg' = col_out[Len(col_out)].hex
    /\ col_calls' = Append(col_calls, col_out[Len(col_out)].hex)
    /\ channels' = <<>>
    /\ col_result' = ColRunning
    /\ UNCHANGED col_out

\* The strings a caller passes: up to MaxHashes '#', then up to MaxLen
\* characters, zeros but for the two of them that are any of ColorChars.
ColorBodies ==
    UNION {{[k \in 1..n |-> IF k = i THEN c ELSE IF k = j THEN d ELSE "0"] :
               i \in 1..n, j \in 1..n, c \in ColorChars, d \in ColorChars} :
           n \in 0..MaxLen}

ColorInputs ==
    {[k \in 1..h |-> "#"] \o body : h \in 0..MaxHashes, body \in ColorBodies \cup {<<>>}}

ColorInit ==
    /\ hex_arg \in ColorInputs
    /\ channels = <<>>
    /\ col_result = ColRunning
    /\ col_calls = <<hex_arg>>
    /\ col_out = <<>>
    /\ ReloadIdle
    /\ TraceIdle
    /\ IdIdle
    /\ MountIdle
    /\ CmdIdle
    /\ RaceIdle
    /\ ForgeIdle

ColorNext ==
    \/ ColorInvalidFormat /\ UNCHANGED notColor
    \/ ColorSlicePanic /\ UNCHANGED notColor
    \/ ColorParseError /\ UNCHANGED notColor
    \/ ColorChannel /\ UNCHANGED notColor
    \/ ColorOk /\ UNCHANGED notColor
    \/ ColorEmit /\ UNCHANGED notColor
    \/ ColorReparse /\ UNCHANGED notColor

SpecColor == ColorInit /\ [][ColorNext]_vars

(***************************************************************************)
(* preflight.rs and commands/forge.rs: forge()                             *)
(***************************************************************************)
FRunning == [tag |-> "Running", err |-> ""]
FOk == [tag |-> "Ok", err |-> ""]
FErr(e) == [tag |-> "Err", err |-> e]

\* A command forge ran, or a call it made on the filesystem, and whether it
\* succeeded.
Ran(command, target, ok) == [cmd |-> command, target |-> target, ok |-> ok]

\* A line of input is its words and the whitespace characters between and
\* around them, in order.
White == {" ", "\t", "\n"}

\* str::trim(): leading and trailing whitespace is cut off.
RECURSIVE trim_start(_)
trim_start(s) ==
    IF s # <<>> /\ s[1] \in White THEN trim_start(Tail(s)) ELSE s
RECURSIVE trim_end(_)
trim_end(s) ==
    IF s # <<>> /\ s[Len(s)] \in White THEN trim_end(SubSeq(s, 1, Len(s) - 1)) ELSE s
trim(s) == trim_end(trim_start(s))

\* confirm_destruction accepting a line in which the device name occurs.
confirmed_Contains(input, device) == device \in Range(input)

\* preflight.rs line 121: input.trim() != device bails.
confirmed(input, device) == trim(input) = <<device>>

\* preflight.rs lines 8-50: the checks of run(), in the order it makes them.
PreflightChecks == <<"root", "uefi", "device", "mounts", "tools", "network", "confirm">>

\* Whether a check lets run() go on, on the host and with the operator of
\* f_in.
passes(check) ==
    CASE check = "root"    -> f_in.root
      [] check = "uefi"    -> f_in.uefi
      [] check = "device"  -> f_in.exists
      [] check = "mounts"  -> f_in.mounts = "free"
      [] check = "tools"   -> f_in.tools
      [] check = "network" -> f_in.network
      [] check = "confirm" -> f_in.stdin.ok /\ confirmed(f_in.stdin.line, f_in.device)

\* forge.rs lines 47-103, resolve_partition included: the commands of
\* cleansing() and vault(), in order.  All but the opening of the LUKS
\* container destroy what the device holds.
CleansingAndVault ==
    << "sgdisk --zap-all", "sgdisk -n 1", "sgdisk -n 2", "mkfs.vfat",
       "cryptsetup luksFormat", "cryptsetup open", "mkfs.btrfs" >>
Destructive == Range(CleansingAndVault) \ {"cryptsetup open"}

\* forge.rs lines 106-157: what subvolume_dance() does, in order.
GuardOp(op, target) == [op |-> op, target |-> target]
SubvolumeDance ==
    << GuardOp("mount", "/mnt"),
       GuardOp("run", "btrfs subvolume create /mnt/@"),
       GuardOp("run", "btrfs subvolume create /mnt/@home"),
       GuardOp("run", "btrfs subvolume create /mnt/@pkg"),
       GuardOp("unmount", "/mnt"),
       GuardOp("mount", "/mnt"),
       GuardOp("run", "create_dir_all"),
       GuardOp("mount", "/mnt/home"),
       GuardOp("mount", "/mnt/var/cache/pacman/pkg"),
       GuardOp("mount", "/mnt/boot/EFI") >>

\* forge.rs lines 168-180, MountGuard::mount: the target is pushed when the
\* mount command succeeded.
mount(mounts_vec, target, ok) == IF ok THEN Append(mounts_vec, target) ELSE mounts_vec

\* Vec::remove(pos).
remove(v, pos) == [k \in 1..(Len(v) - 1) |-> IF k < pos THEN v[k] ELSE v[k + 1]]

\* Iterator::rposition: the last place of the target, none in the empty set.
rposition(v, target) ==
    LET at == {k \in DOMAIN v : v[k] = target}
    IN  IF at = {} THEN {} ELSE {CHOOSE k \in at : \A j \in at : j <= k}

\* MountGuard::unmount that leaves the list as it is.
unmount_KeepsEntry(mounts_vec, target, ok) == mounts_vec

\* forge.rs lines 182-195, MountGuard::unmount: when the umount command
\* succeeded, the last entry equal to the target is removed.
unmount(mounts_vec, target, ok) ==
    IF ok /\ rposition(mounts_vec, target) # {}
    THEN remove(mounts_vec, CHOOSE pos \in rposition(mounts_vec, target) : TRUE)
    ELSE mounts_vec

\* preflight.rs lines 14-47 and 121-123: a check fails and forge returns its
\* error (forge.rs line 9).
ForgePreflightFail ==
    /\ f_pc = "Preflight"
    /\ ~passes(PreflightChecks[f_idx])
    /\ f_result' = FErr(PreflightChecks[f_idx])
    /\ f_pc' = "Done"
    /\ UNCHANGED <<f_in, f_idx, f_log, guard>>

\* preflight.rs lines 8-50: a check passes; after the last of them
\* cleansing() begins.
ForgePreflightPass ==
    /\ f_pc = "Preflight"
    /\ passes(PreflightChecks[f_idx])
    /\ IF f_idx < Len(PreflightChecks)
       THEN f_idx' = f_idx + 1 /\ UNCHANGED f_pc
       ELSE f_idx' = 1 /\ f_pc' = "Partitioning"
    /\ UNCHANGED <<f_in, f_log, guard, f_result>>

\* forge.rs lines 12-15: a command of cleansing() or vault() cannot be run
\* or exits with an error; forge returns.
ForgeCommandFail ==
    /\ f_pc = "Partitioning"
    /\ f_log' = Append(f_log, Ran(CleansingAndVault[f_idx], f_in.device, FALSE))
    /\ f_result' = FErr(CleansingAndVault[f_idx])
    /\ f_pc' = "Done"
    /\ UNCHANGED <<f_in, f_idx, guard>>

\* forge.rs lines 12-18: a command of cleansing() or vault() succeeds; after
\* the last of them the guard is made, empty.
ForgeCommandOk ==
    /\ f_pc = "Partitioning"
    /\ f_log' = Append(f_log, Ran(CleansingAndVault[f_idx], f_in.device, TRUE))
    /\ IF f_idx < Len(CleansingAndVault)
       THEN f_idx' = f_idx + 1 /\ UNCHANGED <<f_pc, guard>>
       ELSE f_idx' = 1 /\ f_pc' = "Dance" /\ guard' = <<>>
    /\ UNCHANGED <<f_in, f_result>>

\* forge.rs lines 106-157: one step of subvolume_dance(); a step that fails
\* returns from forge, which drops the guard.
ForgeDanceStep ==
    /\ f_pc = "Dance"
    /\ \E ok \in BOOLEAN :
          LET step == SubvolumeDance[f_idx] IN
          /\ f_log' = Append(f_log, Ran(IF step.op = "unmount" THEN "umount" ELSE step.op,
                                        step.target, ok))
          /\ guard' = CASE step.op = "mount"   -> mount(guard, step.target, ok)
                        [] step.op = "unmount" -> unmount(guard, step.target, ok)
                        [] OTHER               -> guard
          /\ IF ~ok
             THEN f_result' = FErr(step.op) /\ f_pc' = "Drop" /\ f_idx' = Len(guard')
             ELSE /\ UNCHANGED f_result
                  /\ IF f_idx < Len(SubvolumeDance)
                     THEN f_idx' = f_idx + 1 /\ UNCHANGED f_pc
                     ELSE f_idx' = 0 /\ f_pc' = "Injection"
    /\ UNCHANGED f_in

\* forge.rs lines 24-37 and 216-262: injection() and the chroot stage, each
\* succeeding or failing; either way forge returns and the guard is dropped.
ForgeInjectAndChroot ==
    /\ f_pc = "Injection"
    /\ \E injected, staged \in BOOLEAN :
          /\ f_log' = IF injected
                      THEN f_log \o <<Ran("run", "injection", TRUE),
                                      Ran("run", "arch-chroot", staged)>>
                      ELSE Append(f_log, Ran("run", "injection", FALSE))
          /\ f_result' = IF ~injected THEN FErr("injection")
                         ELSE IF ~staged THEN FErr("Chroot stage failed")
                         ELSE FOk
    /\ f_pc' = "Drop"
    /\ f_idx' = Len(guard)
    /\ UNCHANGED <<f_in, guard>>

\* forge.rs lines 199-204, Drop: the next entry from the end is unmounted
\* lazily; what umount answers is dropped.
GuardDropUnmount ==
    /\ f_pc = "Drop"
    /\ f_idx >= 1
    /\ \E ok \in BOOLEAN : f_log' = Append(f_log, Ran("umount -l", guard[f_idx], ok))
    /\ f_idx' = f_idx - 1
    /\ UNCHANGED <<f_in, f_pc, guard, f_result>>

\* forge.rs line 211: after the loop the LUKS container is closed.
GuardDropClose ==
    /\ f_pc = "Drop"
    /\ f_idx = 0
    /\ \E ok \in BOOLEAN : f_log' = Append(f_log, Ran("cryptsetup close", "root", ok))
    /\ f_pc' = "Done"
    /\ UNCHANGED <<f_in, f_idx, guard, f_result>>

\* The devices forge is called on and the lines the operator types.
ForgeDevices == {"/dev/sda", "/dev/nvme0n1"}
TypedLines(device) ==
    { <<device, "\n">>, <<" ", device, "\t", "\n">>, <<device>>, <<>>, <<"\n">>,
      <<"yes", "\n">>, <<"y", "\n">>, <<device, " ", "yes", "\n">>,
      <<"sda", "\n">>, <<"/dev/sdb", "\n">> }

\* preflight.rs line 119, read_line: an io::Error, or the line read.
ReadLine(device) ==
    {[ok |-> FALSE, line |-> <<>>]} \cup {[ok |-> TRUE, line |-> l] : l \in TypedLines(device)}

ForgeInit ==
    /\ \E device \in ForgeDevices :
          f_in \in [ device : {device}, root : BOOLEAN, uefi : BOOLEAN, exists : BOOLEAN,
                     mounts : {"free", "mounted", "unreadable"}, tools : BOOLEAN,
                     network : BOOLEAN, stdin : ReadLine(device) ]
    /\ f_pc = "Preflight"
    /\ f_idx = 1
    /\ f_log = <<>>
    /\ guard = <<>>
    /\ f_result = FRunning
    /\ ReloadIdle
    /\ TraceIdle
    /\ IdIdle
    /\ MountIdle
    /\ CmdIdle
    /\ ColorIdle
    /\ RaceIdle

ForgeNext ==
    \/ ForgePreflightFail /\ UNCHANGED notForge
    \/ ForgePreflightPass /\ UNCHANGED notForge
    \/ ForgeCommandFail /\ UNCHANGED notForge
    \/ ForgeCommandOk /\ UNCHANGED notForge
    \/ ForgeDanceStep /\ UNCHANGED notForge
    \/ ForgeInjectAndChroot /\ UNCHANGED notForge
    \/ GuardDropUnmount /\ UNCHANGED notForge
    \/ GuardDropClose /\ UNCHANGED notForge

SpecForge == ForgeInit /\ [][ForgeNext]_vars

(***************************************************************************)
(* commands/forge.rs: a MountGuard under any sequence of calls             *)
(***************************************************************************)
GuardTargets == {"/mnt", "/mnt/home"}

\* Lines 168-180: one call of guard.mount.
GuardCallMount ==
    /\ f_pc = "Calls"
    /\ Len(f_log) < MaxCalls
    /\ \E target \in GuardTargets, ok \in BOOLEAN :
          /\ f_log' = Append(f_log, Ran("mount", target, ok))
          /\ guard' = mount(guard, target, ok)
    /\ UNCHANGED <<f_in, f_pc, f_idx, f_result>>

\* Lines 182-195: one call of guard.unmount.
GuardCallUnmount ==
    /\ f_pc = "Calls"
    /\ Len(f_log) < MaxCalls
    /\ \E target \in GuardTargets, ok \in BOOLEAN :
          /\ f_log' = Append(f_log, Ran("umount", target, ok))
          /\ guard' = unmount(guard, target, ok)
    /\ UNCHANGED <<f_in, f_pc, f_idx, f_result>>

\* The guard goes out of scope: drop() begins at the end of the list.
GuardScopeEnd ==
    /\ f_pc = "Calls"
    /\ f_pc' = "Drop"
    /\ f_idx' = Len(guard)
    /\ UNCHANGED <<f_in, f_log, guard, f_result>>

\* Line 165, MountGuard::new().
GuardInit ==
    /\ f_in = <<>>
    /\ f_pc = "Calls"
    /\ f_idx = 0
    /\ f_log = <<>>
    /\ guard = <<>>
    /\ f_result = FRunning
    /\ ReloadIdle
    /\ TraceIdle
    /\ IdIdle
    /\ MountIdle
    /\ CmdIdle
    /\ ColorIdle
    /\ RaceIdle

GuardNext ==
    \/ GuardCallMount /\ UNCHANGED notForge
    \/ GuardCallUnmount /\ UNCHANGED notForge
    \/ GuardScopeEnd /\ UNCHANGED notForge
    \/ GuardDropUnmount /\ UNCHANGED notForge
    \/ GuardDropClose /\ UNCHANGED notForge

SpecGuard == GuardInit /\ [][GuardNext]_vars

(***************************************************************************)
(* commands/set.rs: two processes run set() on one slate.toml              *)
(***************************************************************************)
Procs == {1, 2}
Other(p) == CHOOSE q \in Procs : q # p

Event(p, ev) == [proc |-> p, ev |-> ev]

\* The locals of one set(): key and value are its arguments.
SetProc(key, value) ==
    [pc |-> "Start", key |-> key, value |-> value, config |-> <<>>, result |-> CRunning]

\* Lines 18-41 and 46-54: the arm of the key stores the value.
store(c, key, value) ==
    LET a == CHOOSE arm \in StringArms : split_dot(key) = Pattern(arm.section, arm.field)
    IN  [c EXCEPT ![a.section][a.field] = value]

\* Line 6: the file cannot be read or parsed; another set() may have
\* opened it for writing and not written it yet.
RaceSetLoadFail(p) ==
    /\ procs[p].pc = "Start"
    /\ ~load_ok(shared)
    /\ procs' = [procs EXCEPT ![p].pc = "Done", ![p].result = CErr("load")]
    /\ UNCHANGED <<shared, order>>

\* Line 6.
RaceSetLoad(p) ==
    /\ procs[p].pc = "Start"
    /\ load_ok(shared)
    /\ procs' = [procs EXCEPT ![p].pc = "Match", ![p].config = shared.config]
    /\ order' = Append(order, Event(p, "load"))
    /\ UNCHANGED shared

\* Lines 9-58 for the key of a string field.
RaceSetStringField(p) ==
    /\ procs[p].pc = "Match"
    /\ procs' = [procs EXCEPT ![p].pc = "Mutated",
                              ![p].config = store(procs[p].config, procs[p].key,
                                                  procs[p].value)]
    /\ UNCHANGED <<shared, order>>

\* Line 68, config.rs lines 89-93: the save fails before or in fs::write.
RaceSetSaveFail(p) ==
    /\ procs[p].pc = "Mutated"
    /\ shared' \in AfterFailedSave(shared)
    /\ procs' = [procs EXCEPT ![p].pc = "Done", ![p].result = CErr("save")]
    /\ UNCHANGED order

\* config.rs line 93, fs::write: the file is opened and cut to no length.
RaceSetSaveOpen(p) ==
    /\ procs[p].pc = "Mutated"
    /\ shared' = Truncated
    /\ procs' = [procs EXCEPT ![p].pc = "Writing"]
    /\ UNCHANGED order

\* RaceSetSaveWrite writing its own field into the file as it is now, not
\* the whole of the config it loaded.
RaceSetSaveWrite_Merges(p) ==
    /\ procs[p].pc = "Writing"
    /\ \E base \in (IF load_ok(shared) THEN {shared.config} ELSE {procs[p].config}) :
          shared' = Saved(store(base, procs[p].key, procs[p].value))
    /\ procs' = [procs EXCEPT ![p].pc = "Saved"]
    /\ order' = Append(order, Event(p, "save"))

\* config.rs line 93, fs::write: the whole text is written from the start of
\* the file.  Over a text another process wrote since the file was opened,
\* the file ends up as this text, or as this text and the rest of a longer
\* one.
RaceSetSaveWrite(p) ==
    /\ procs[p].pc = "Writing"
    /\ shared' \in (IF shared = Truncated THEN {Saved(procs[p].config)}
                    ELSE {Saved(procs[p].config), Malformed})
    /\ procs' = [procs EXCEPT ![p].pc = "Saved"]
    /\ order' = Append(order, Event(p, "save"))

\* Line 73: reload() loads the file again and deploys; what it returns, set
\* returns.
RaceSetReload(p) ==
    /\ procs[p].pc = "Saved"
    /\ \E r \in (IF load_ok(shared) THEN {COk, CErr("reload")} ELSE {CErr("reload")}) :
          procs' = [procs EXCEPT ![p].pc = "Done", ![p].result = r]
    /\ UNCHANGED <<shared, order>>

\* The keys of the two calls: string fields of either section.
RaceKeys ==
    {Dotted("palette", "accent"), Dotted("palette", "bg_void"),
     Dotted("hardware", "font_family"), Dotted("hardware", "wallpaper")}

\* Two calls of set on different keys, without --dry-run, on the file a
\* save left.
SetRaceInit ==
    /\ \E k1 \in RaceKeys : \E k2 \in RaceKeys \ {k1} :
          procs = [p \in Procs |-> IF p = 1 THEN SetProc(k1, "set by 1")
                                           ELSE SetProc(k2, "set by 2")]
    /\ shared \in {Saved(FileConfig(mode)) : mode \in {"manual", "matugen"}}
    /\ order = <<>>
    /\ ReloadIdle
    /\ TraceIdle
    /\ IdIdle
    /\ MountIdle
    /\ CmdIdle
    /\ ColorIdle
    /\ ForgeIdle

SetRaceNext ==
    \E p \in Procs :
        \/ RaceSetLoadFail(p) /\ UNCHANGED notRace
        \/ RaceSetLoad(p) /\ UNCHANGED notRace
        \/ RaceSetStringField(p) /\ UNCHANGED notRace
        \/ RaceSetSaveFail(p) /\ UNCHANGED notRace
        \/ RaceSetSaveOpen(p) /\ UNCHANGED notRace
        \/ RaceSetSaveWrite(p) /\ UNCHANGED notRace
        \/ RaceSetReload(p) /\ UNCHANGED notRace

SpecSetRace == SetRaceInit /\ [][SetRaceNext]_vars

(***************************************************************************)
(* commands/reload.rs: two runs of reload() on one ~/.config               *)
(***************************************************************************)
\* File contents that tell the two runs apart: each run renders from the
\* configuration it loaded, so the text of run 1 for an app need not be the
\* text of run 2 for it.
RaceAbsent == [kind |-> "absent", app |-> 0, run |-> 0]
RaceOld == [kind |-> "old", app |-> 0, run |-> 0]
RunText(r, a) == [kind |-> "render", app |-> a, run |-> r]
RunPartial(r, a) == [kind |-> "partial", app |-> a, run |-> r]

RaceInitFs == [p \in AllPaths |-> IF p \in ConfigPaths THEN RaceOld ELSE RaceAbsent]

\* The locals of one reload(): its place in the loop, and temp_files.
ReloadProc == [pc |-> "Idle", idx |-> 0, temp_files |-> <<>>, result |-> CRunning]

\* rename(2), as Renamed, over these contents.
RaceRenamed(f, from, to) ==
    IF from = to THEN f ELSE [f EXCEPT ![to] = f[from], ![from] = RaceAbsent]

RaceTarget(r) == Target(shared.apps[procs[r].idx])
RaceTemp(r) == TempOf(RaceTarget(r))
RaceEntry(r) == procs[r].temp_files[procs[r].idx]

\* Lines 8-50: the run loads the configuration and renders every app; none
\* of it touches ~/.config.
RaceReloadStart(r) ==
    /\ procs[r].pc = "Idle"
    /\ procs' = [procs EXCEPT ![r].pc = "Staging", ![r].idx = 1]
    /\ order' = Append(order, Event(r, "start"))
    /\ UNCHANGED shared

\* Lines 60-62: create_dir_all fails.
RaceStageMkdirFail(r) ==
    /\ procs[r].pc = "Staging" /\ procs[r].idx <= Len(shared.apps)
    /\ procs' = [procs EXCEPT ![r].pc = "Done", ![r].result = CErr("create_dir_all")]
    /\ order' = Append(order, Event(r, "end"))
    /\ UNCHANGED shared

\* Line 64: fs::write fails, after it wrote nothing or a part of the text.
RaceStageWriteFail(r) ==
    /\ procs[r].pc = "Staging" /\ procs[r].idx <= Len(shared.apps)
    /\ \E left \in {shared.fs[RaceTemp(r)], RunPartial(r, procs[r].idx)} :
          shared' = [shared EXCEPT !.fs[RaceTemp(r)] = left]
    /\ procs' = [procs EXCEPT ![r].pc = "Done", ![r].result = CErr("write")]
    /\ order' = Append(order, Event(r, "end"))

\* Lines 57-65: the temp file holds this run's text of the app.
RaceStageOk(r) ==
    /\ procs[r].pc = "Staging" /\ procs[r].idx <= Len(shared.apps)
    /\ shared' = [shared EXCEPT !.fs[RaceTemp(r)] = RunText(r, procs[r].idx)]
    /\ procs' = [procs EXCEPT ![r].idx = @ + 1,
                              ![r].temp_files =
                                  Append(@, [temp |-> RaceTemp(r), target |-> RaceTarget(r)])]
    /\ UNCHANGED order

\* Lines 68-70.
RaceStartCommit(r) ==
    /\ procs[r].pc = "Staging" /\ procs[r].idx > Len(shared.apps)
    /\ procs' = [procs EXCEPT ![r].pc = "Committing", ![r].idx = 1]
    /\ UNCHANGED <<shared, order>>

\* Line 71: fs::rename fails: the temp file is not there (ENOENT), or the
\* system refuses the rename.
RaceCommitRenameFail(r) ==
    /\ procs[r].pc = "Committing" /\ procs[r].idx <= Len(procs[r].temp_files)
    /\ procs' = [procs EXCEPT ![r].pc = "Done",
                              ![r].result =
                                  IF shared.fs[RaceEntry(r).temp] = RaceAbsent
                                  THEN CErr("rename: No such file or directory")
                                  ELSE CErr("rename")]
    /\ order' = Append(order, Event(r, "end"))
    /\ UNCHANGED shared

\* Lines 71-72: the rename moves whatever the temp path holds now.
RaceCommitOk(r) ==
    /\ procs[r].pc = "Committing" /\ procs[r].idx <= Len(procs[r].temp_files)
    /\ shared.fs[RaceEntry(r).temp] # RaceAbsent
    /\ strip_prefix_ok(RaceEntry(r).target)
    /\ shared' = [shared EXCEPT !.fs = RaceRenamed(@, RaceEntry(r).temp, RaceEntry(r).target)]
    /\ procs' = [procs EXCEPT ![r].idx = @ + 1]
    /\ UNCHANGED order

\* Lines 71-72: the rename succeeds and strip_prefix fails.
RaceCommitStripPrefixFail(r) ==
    /\ procs[r].pc = "Committing" /\ procs[r].idx <= Len(procs[r].temp_files)
    /\ shared.fs[RaceEntry(r).temp] # RaceAbsent
    /\ ~strip_prefix_ok(RaceEntry(r).target)
    /\ shared' = [shared EXCEPT !.fs = RaceRenamed(@, RaceEntry(r).temp, RaceEntry(r).target)]
    /\ procs' = [procs EXCEPT ![r].pc = "Done", ![r].result = CErr("strip_prefix")]
    /\ order' = Append(order, Event(r, "end"))

\* Lines 74-103: the signal loop writes no file and returns no error.
RaceReloadFinish(r) ==
    /\ procs[r].pc = "Committing" /\ procs[r].idx > Len(procs[r].temp_files)
    /\ procs' = [procs EXCEPT ![r].pc = "Done", ![r].result = COk]
    /\ order' = Append(order, Event(r, "end"))
    /\ UNCHANGED shared

\* Both runs deploy the same app list; every app of it is enabled.
RaceAppLists ==
    UNION {[1..n -> {a \in App : a.enabled /\ a.reload_signal = SigNone}] : n \in 1..MaxApps}

ReloadRaceInit ==
    /\ procs = [r \in Procs |-> ReloadProc]
    /\ \E l \in RaceAppLists : shared = [apps |-> l, fs |-> RaceInitFs]
    /\ order = <<>>
    /\ ReloadIdle
    /\ TraceIdle
    /\ IdIdle
    /\ MountIdle
    /\ CmdIdle
    /\ ColorIdle
    /\ ForgeIdle

ReloadRaceNext ==
    \E r \in Procs :
        \/ RaceReloadStart(r) /\ UNCHANGED notRace
        \/ RaceStageMkdirFail(r) /\ UNCHANGED notRace
        \/ RaceStageWriteFail(r) /\ UNCHANGED notRace
        \/ RaceStageOk(r) /\ UNCHANGED notRace
        \/ RaceStartCommit(r) /\ UNCHANGED notRace
        \/ RaceCommitRenameFail(r) /\ UNCHANGED notRace
        \/ RaceCommitOk(r) /\ UNCHANGED notRace
        \/ RaceCommitStripPrefixFail(r) /\ UNCHANGED notRace
        \/ RaceReloadFinish(r) /\ UNCHANGED notRace

SpecReloadRace == ReloadRaceInit /\ [][ReloadRaceNext]_vars

(***************************************************************************)
(* Properties of reload(), checked under Spec                              *)
(***************************************************************************)
Enabled      == {k \in DOMAIN apps : apps[k].enabled}
Destinations == {Target(apps[k]) : k \in Enabled}
RenamedOk    == {k \in DOMAIN fsops : fsops[k].op = "rename" /\ fsops[k].ok}
Renames      == {k \in DOMAIN fsops : fsops[k].op = "rename"}
NoWrite      == fsops = <<>> /\ fs = InitFs

\* C1: when the render of an enabled app fails the run ends at that app, the
\* first to fail, and has made no filesystem call that writes: no directory
\* created, no temp file written, no destination changed, those of the apps
\* rendered before it included.
C1_RenderFailureWritesNothing ==
    result.origin = "render" =>
        /\ pc = "Done"
        /\ result.tag = "Err"
        /\ apps[idx].enabled
        /\ renders = SelectSeq([k \in 1..(idx - 1) |-> k], LAMBDA k : apps[k].enabled)
        /\ NoWrite
        /\ temp_files = <<>>

\* C1 witness: a render failed after an earlier app had rendered.
C1_Witness ==
    /\ result = Err("render")
    /\ Len(renders) >= 1

\* C2 (as claimed): when create_dir_all or the write of a temp file fails, the
\* run fails without any rename and every destination holds what it held
\* before the run.
C2_StageFailureLeavesDestinations ==
    result.origin \in {"create_dir_all", "write"} =>
        /\ result.tag = "Err"
        /\ Renames = {}
        /\ \A p \in Destinations : fs[p] = InitFs[p]

\* C3: a dry run makes no filesystem call that writes, whatever the number of
\* enabled apps, and ends in Ok with every rendered output printed.
C3_DryRunWritesNothing ==
    dry_run =>
        /\ NoWrite
        /\ temp_files = <<>>
        /\ dispatched = <<>>
        /\ (pc = "Done" /\ result.origin \notin {"setup", "render"}) =>
              /\ result = Ok
              /\ Len(stdout) = Cardinality(Enabled)
              /\ \A k \in Enabled : \E n \in DOMAIN stdout :
                    /\ stdout[n].line = "dry"
                    /\ stdout[n].path = Target(apps[k])
                    /\ stdout[n].content = Rendered(k)

\* C3 witness: a dry run over two enabled apps has returned Ok.
C3_Witness ==
    /\ dry_run
    /\ pc = "Done"
    /\ result = Ok
    /\ Cardinality(Enabled) >= 2

\* C4 (as claimed): a destination changes only in the commit loop, after the
\* temp file of every enabled app was written in full, and only by the rename
\* of a temp file onto it, which leaves it holding a text written in full.
C4_OnlyRenameReplaces ==
    [][\A p \in Destinations :
          fs'[p] # fs[p] =>
              /\ pc = "Committing"
              /\ Len(temp_files) = Cardinality(Enabled)
              /\ fsops' = Append(fsops, FsOp("rename", p, TRUE))
              /\ fs'[p].kind = "render"]_vars

\* C5 (as claimed): when a rename fails after some destinations were replaced,
\* the error returned names exactly the destinations committed and exactly
\* those not committed.
C5_RenameFailureNamesPartialCommit ==
    (result.origin = "rename" /\ RenamedOk # {}) =>
        /\ result.tag = "Err"
        /\ result.committed = {fsops[k].path : k \in RenamedOk}
        /\ result.not_committed =
              {temp_files[k].target : k \in idx..Len(temp_files)}

\* The reload signals the enabled apps ask for.
WantedSignals == {apps[k].reload_signal : k \in Enabled} \ {SigNone}
SentAs(s)     == {j \in DOMAIN dispatched : dispatched[j].signal = s}
Committed     == pc = "Done" /\ result = Ok /\ ~dry_run

\* C6: a committed run has dispatched exactly one reload action for every
\* (variant, target) that occurs among the signals of the enabled apps, however
\* many apps share it, and none for anything else (None included).
C6_OneActionPerKey ==
    Committed =>
        /\ \A s \in WantedSignals : Cardinality(SentAs(s)) = 1
        /\ \A j \in DOMAIN dispatched : dispatched[j].signal \in WantedSignals

\* C6 witness: a committed run over two enabled apps with the same signal.
C6_Witness ==
    /\ Committed
    /\ \E a, b \in Enabled :
          /\ a # b
          /\ apps[a].reload_signal = apps[b].reload_signal
          /\ apps[a].reload_signal # SigNone

\* C7: a reload action is dispatched only once every staged temp file has
\* been renamed onto its destination: never in a dry run, nor after a failed
\* render, a failed staging write or a failed rename.
C7_DispatchOnlyAfterCommit ==
    dispatched # <<>> =>
        /\ ~dry_run
        /\ result.tag # "Err"
        /\ Len(renders) = Cardinality(Enabled)
        /\ Len(temp_files) = Len(renders)
        /\ Cardinality(RenamedOk) = Len(temp_files)
        /\ \A k \in DOMAIN fsops : fsops[k].ok

\* C7 witness: an action was dispatched in a run that staged two files.
C7_Witness ==
    /\ dispatched # <<>>
    /\ Len(temp_files) = 2

Failed == {j \in DOMAIN dispatched : ~dispatched[j].notified}

EnabledSeq == SelectSeq([k \in DOMAIN apps |-> k], LAMBDA k : apps[k].enabled)

IsPrefix(s, t) == Len(s) <= Len(t) /\ s = SubSeq(t, 1, Len(s))

\* The destinations renamed onto so far, in order.
RenamedTargets ==
    LET done == SelectSeq(fsops, LAMBDA o : o.op = "rename" /\ o.ok)
    IN  [k \in DOMAIN done |-> done[k].path]

\* The temp files written in full so far, in order.
StagedTemps ==
    LET done == SelectSeq(fsops, LAMBDA o : o.op = "write" /\ o.ok)
    IN  [k \in DOMAIN done |-> done[k].path]

\* C25: rendering, staging and commit each go through the enabled apps in
\* declared order and through no other app: what is rendered, the temp files
\* written and the destinations renamed onto are, in order, those of the
\* enabled apps, all of them once the phase is over; every filesystem call
\* is made on the temp file or the destination of an enabled app and every
\* reload action dispatched is the signal of one.
C25_OnlyEnabledInOrder ==
    /\ IsPrefix(renders, EnabledSeq)
    /\ pc \in {"Staging", "Committing", "Signals"} => renders = EnabledSeq
    /\ IsPrefix(StagedTemps, [k \in DOMAIN EnabledSeq |-> TempOf(Target(apps[EnabledSeq[k]]))])
    /\ pc \in {"Committing", "Signals"} => Len(StagedTemps) = Len(EnabledSeq)
    /\ IsPrefix(RenamedTargets, [k \in DOMAIN EnabledSeq |-> Target(apps[EnabledSeq[k]])])
    /\ pc = "Signals" => Len(RenamedTargets) = Len(EnabledSeq)
    /\ \A n \in DOMAIN fsops : \E k \in Enabled :
          fsops[n].path \in {Target(apps[k]), TempOf(Target(apps[k]))}
    /\ \A j \in DOMAIN dispatched :
          \E k \in Enabled : apps[k].reload_signal = dispatched[j].signal

\* C25 witness: a run over an enabled app, one that is not and a second
\* enabled one has committed and dispatched.
C25_Witness ==
    /\ Committed
    /\ Len(apps) = 3
    /\ EnabledSeq = <<1, 3>>
    /\ Len(dispatched) = 2

\* s without the elements that stand in it earlier.
RECURSIVE FirstSeen(_)
FirstSeen(s) ==
    IF s = <<>> THEN <<>>
    ELSE LET front == FirstSeen(SubSeq(s, 1, Len(s) - 1))
         IN  IF s[Len(s)] \in Range(front) THEN front ELSE Append(front, s[Len(s)])

\* The dedup keys the enabled apps ask for, in declared order.
WantedKeys ==
    LET asking == SelectSeq(EnabledSeq, LAMBDA k : apps[k].reload_signal # SigNone)
    IN  [j \in DOMAIN asking |-> sig_key(apps[asking[j]].reload_signal)]

DispatchedKeys == [j \in DOMAIN dispatched |-> sig_key(dispatched[j].signal)]

\* C26: the reload actions are dispatched in the order in which their keys
\* first appear among the enabled apps in declared order, each once: at
\* every moment the keys dispatched are a prefix of that order, and the whole
\* of it when the run has committed and returned.
C26_FirstSeenOrder ==
    /\ IsPrefix(DispatchedKeys, FirstSeen(WantedKeys))
    /\ Committed => DispatchedKeys = FirstSeen(WantedKeys)

\* C26 witness: a committed run over three enabled apps, the third with the
\* key of the first and the second with another.
C26_Witness ==
    /\ Committed
    /\ Len(WantedKeys) = 3
    /\ WantedKeys[1] = WantedKeys[3]
    /\ WantedKeys[1] # WantedKeys[2]

\* The phases in the order the spec gives them; Setup stands before them.
Phases == <<"Setup", "Rendering", "Staging", "Committing", "Signals">>
PhaseOf(p) == CHOOSE n \in DOMAIN Phases : Phases[n] = p

\* How the run may leave the phase it is in: for the next one, or for its end
\* with the outcome of that phase.
PhaseStep ==
    pc' # pc =>
        \/ pc # "Done" /\ pc' # "Done" /\ PhaseOf(pc') = PhaseOf(pc) + 1
        \/ /\ pc' = "Done"
           /\ CASE pc = "Setup"      -> result' = Err("setup")
                [] pc = "Rendering"  -> \/ result' = Err("render")
                                        \/ result' = Ok /\ dry_run
                [] pc = "Staging"    -> /\ result'.tag = "Err"
                                        /\ result'.origin \in {"create_dir_all", "write"}
                [] pc = "Committing" -> /\ result'.tag = "Err"
                                        /\ result'.origin \in {"rename", "strip_prefix"}
                [] pc = "Signals"    -> result' = Ok /\ ~dry_run
                [] OTHER             -> FALSE

\* C27: every run ends; it enters its phases in the order Rendering, Staging,
\* Committing, SignalDispatch only, and it ends from Rendering as Aborted (a
\* render failed) or DryRunDone, from Staging or Committing with a deployment
\* error, and from SignalDispatch as Done; a run whose configuration or
\* template engine cannot be set up ends before Rendering.
C27_TerminatesInPhaseOrder ==
    /\ <>(pc = "Done")
    /\ [][PhaseStep]_vars

\* C27 witness: a run went through every phase and ended as Done.
C27_Witness ==
    /\ pc = "Done"
    /\ result = Ok
    /\ ~dry_run
    /\ Len(dispatched) >= 1

\* The destinations of the enabled apps are pairwise distinct.
DistinctDestinations ==
    \A a, b \in Enabled : a # b => Target(apps[a]) # Target(apps[b])

\* C30 (as claimed): when the destinations of the enabled apps are pairwise
\* distinct, their temp paths are pairwise distinct and none is a
\* destination, and after a run that returned Ok without dry_run every
\* destination holds the text rendered for its own app.
C30_TempPathsApart ==
    DistinctDestinations =>
        /\ \A a, b \in Enabled :
              a # b => TempOf(Target(apps[a])) # TempOf(Target(apps[b]))
        /\ \A a \in Enabled : TempOf(Target(apps[a])) \notin Destinations
        /\ Committed => \A a \in Enabled : fs[Target(apps[a])] = Rendered(a)

(***************************************************************************)
(* Properties of trace_to_physical_partition(), checked under SpecTrace    *)
(***************************************************************************)
\* The spec's name for the error of lines 110-115.
SysfsEntryMissing == TErr("not found in sysfs")

\* C9 (as claimed): the walk ends on every topology: when the slave to trace
\* next is a device the walk has been at already (the device itself, or one
\* further up), the walk has failed with SysfsEntryMissing; the recursion
\* never outgrows the stack.
C9_RevisitFails ==
    /\ device_name(t_arg) \in Range(t_stack) => t_result = SysfsEntryMissing
    /\ t_result # TOverflow

\* The end of the chain of single-slave virtual devices that starts at d, and
\* the number of layers above it; NoName when the chain meets a missing
\* record, an aggregate, or no terminal device within NumDev layers.
RECURSIVE ChainEnd(_, _)
ChainEnd(d, n) ==
    IF n > NumDev \/ ~sysfs[d].present
    THEN [end |-> NoName, layers |-> n]
    ELSE IF ~sysfs[d].slaves_dir \/ sysfs[d].slaves = {}
    THEN [end |-> d, layers |-> n]
    ELSE IF Cardinality(sysfs[d].slaves) = 1
    THEN ChainEnd(CHOOSE x \in sysfs[d].slaves : TRUE, n + 1)
    ELSE [end |-> NoName, layers |-> n]

\* The device the caller's path denotes, NoName if none.
InputDevice ==
    IF real_path(t_input).dir # "/" /\ real_path(t_input).name \in Devices
    THEN real_path(t_input).name ELSE NoName

\* C10: on a chain of N single-slave virtual devices above a terminal device
\* the walk makes exactly N recursive calls and returns the /dev path of the
\* terminal device, for every N the host's devices allow.
C10_ChainResolves ==
    (InputDevice # NoName /\ ChainEnd(InputDevice, 0).end # NoName) =>
        /\ Len(t_stack) <= ChainEnd(InputDevice, 0).layers
        /\ t_result.tag # "Running" =>
              /\ t_result = TOk(DevPath("/dev", ChainEnd(InputDevice, 0).end))
              /\ Len(t_stack) = ChainEnd(InputDevice, 0).layers

\* C10 witness: a walk through two virtual layers has returned.
C10_Witness ==
    /\ InputDevice # NoName
    /\ ChainEnd(InputDevice, 0).end # NoName
    /\ ChainEnd(InputDevice, 0).layers = NumDev - 1
    /\ t_result.tag = "Ok"

\* A terminal device: its record exists and lists no slave.
Terminal(d) ==
    /\ sysfs[d].present
    /\ ~sysfs[d].slaves_dir \/ sysfs[d].slaves = {}

\* C11 (as claimed): the walk from a terminal device returns the canonical
\* path of the input, wherever that path lies.
C11_TerminalReturnsCanonicalPath ==
    (InputDevice # NoName /\ Terminal(InputDevice) /\ t_result.tag # "Running") =>
        t_result = TOk(canonicalize(t_input))

\* The invocation for t_arg has a frame on the stack: it has run or can run.
Reached == Len(t_stack) < MaxDepth

\* The path of the innermost invocation has a last component and sysfs holds
\* no record under that name.
RecordMissing ==
    /\ real_path(t_arg).dir # "/"
    /\ ~sys_path_exists(device_name(t_arg))

\* C12: when the device of an invocation, the caller's or a slave's the walk
\* has come to, has no sysfs record, the walk goes no further, and what it
\* returns is SysfsEntryMissing, which carries no device path.
C12_MissingRecordFails ==
    (Reached /\ RecordMissing) =>
        /\ t_result \in {TRunning, SysfsEntryMissing}
        /\ SysfsEntryMissing.tag = "Err"
        /\ SysfsEntryMissing.path = DevPath("/", NoName)

\* C12 witness: the walk failed at a slave two layers below the input.
C12_Witness ==
    /\ Len(t_stack) = 2
    /\ RecordMissing
    /\ t_result = SysfsEntryMissing

(***************************************************************************)
(* Properties of get_partuuid() and get_uuid(), checked under SpecStableId *)
(***************************************************************************)
\* The spec's name for the error of lines 170 and 200.
IdNotFound == IdErr("Could not find")

\* The device a namespace entry resolves to: its link target, taken relative
\* to the namespace directory and canonicalized; none for a file that is no
\* symlink and for a link that leads nowhere.
ResolvesTo(e) ==
    IF id_dir.entries[e].link /\ exists(join(NsDir(id_kind), id_dir.entries[e]))
    THEN {canonicalize(join(NsDir(id_kind), id_dir.entries[e]))}
    ELSE {}

MatchingEntries ==
    {e \in DOMAIN id_dir.entries : ResolvesTo(e) = {canonicalize(id_device)}}

\* C13: by-partuuid and by-uuid alike, the name returned is that of an entry
\* that resolves to the canonical path of the queried device, never of one
\* that resolves elsewhere or nowhere; a listing read to its end without a
\* match fails with IdNotFound, and never while an entry matches.
C13_StableIdMatches ==
    /\ id_result.tag = "Ok" =>
          /\ id_result.val \in MatchingEntries
          /\ ResolvesTo(id_result.val) = {canonicalize(id_device)}
    /\ id_result = IdNotFound => (exists(id_device) /\ MatchingEntries = {})
    /\ (id_pc = "Done" /\ id_dir.exists /\ exists(id_device) /\ id_result # IdErr("io")) =>
          IF MatchingEntries = {} THEN id_result = IdNotFound
                                  ELSE id_result.tag = "Ok"

\* C13 witness: the device was given by a /dev/mapper symlink, and the name
\* returned is that of the one entry among two links that resolves to it.
C13_Witness ==
    /\ id_result.tag = "Ok"
    /\ id_device.dir = "/dev/mapper"
    /\ \E e \in DOMAIN id_dir.entries :
          /\ e # id_result.val
          /\ id_dir.entries[e].link
          /\ e \notin MatchingEntries

\* C13 witness, second half: a directory of links only, none of which is the
\* device's, was read to its end.
C13_WitnessNotFound ==
    /\ id_result = IdNotFound
    /\ Cardinality(DOMAIN id_dir.entries) = MaxIds
    /\ \A e \in DOMAIN id_dir.entries : id_dir.entries[e].name = canonicalize(id_device).name

(***************************************************************************)
(* Properties of get_root_device(), checked under SpecMount                *)
(***************************************************************************)
\* The spec's name for the errors of get_root_device (4.1: no entry matches,
\* the table is malformed or cannot be read).
MountEntryNotFound ==
    {MErr("Could not identify root filesystem in /proc/mounts"),
     MErr("Failed to read /proc/mounts")}

\* The whitespace-separated fields of line k of the mount table.
Fields(k) == split_whitespace(mounts.lines[k])

\* The lines that have a device spec and a mount point, the mount point "/".
Qualifying ==
    {k \in DOMAIN mounts.lines : Len(Fields(k)) >= 2 /\ Fields(k)[2] = <<"/">>}

\* C14: the device spec returned is field 1 of the first line in table order
\* whose field 2 is "/", lines of fewer than two fields and mount points that
\* only begin with "/" passed over; a table without such a line fails with
\* MountEntryNotFound.
C14_FirstRootLine ==
    /\ m_result.tag = "Ok" =>
          /\ Qualifying # {}
          /\ m_idx = CHOOSE k \in Qualifying : \A j \in Qualifying : k <= j
          /\ m_result.val = Fields(m_idx)[1]
    /\ (m_result.tag = "Err" /\ mounts.readable) =>
          /\ Qualifying = {}
          /\ m_result = MErr("Could not identify root filesystem in /proc/mounts")
    /\ m_result.tag = "Err" => m_result \in MountEntryNotFound
    /\ (m_result = MRunning /\ mounts.readable) =>
          \A k \in Qualifying : m_idx <= k

\* C14 witness: the second line is the first root line; before it comes a
\* line that is none, after the device spec of the root line come other
\* fields or it is reached through padding.
C14_Witness ==
    /\ m_result.tag = "Ok"
    /\ m_idx = 2
    /\ Len(mounts.lines[1]) >= 3
    /\ Len(mounts.lines[2]) > 3

\* C14 witness, second half: a table of lines none of which is a root line,
\* one of them with a mount point that begins with "/", was read to its end.
C14_WitnessNotFound ==
    /\ m_result.tag = "Err"
    /\ Len(mounts.lines) = MaxLines
    /\ \E k \in DOMAIN mounts.lines : Len(Fields(k)) = 2 /\ Fields(k)[2][1] = "/"

(***************************************************************************)
(* Properties of set(), wall_set() and init(), checked under SpecCmd       *)
(***************************************************************************)
\* The schema's palette.* and hardware.* keys: a key for every field of
\* Palette (config.rs:11-26) and of Hardware (config.rs:45-52).
SchemaKeys ==
    {Dotted("palette", f) : f \in DOMAIN FileConfig("manual").palette}
    \cup {Dotted("hardware", f) : f \in DOMAIN FileConfig("manual").hardware}

\* Nothing was saved, no deployment run was started.
NoSaveNoReload ==
    /\ slate_toml \in {Malformed, Saved(FileConfig("manual")), Saved(FileConfig("matugen"))}
    /\ \A k \in DOMAIN c_log : c_log[k].ev \notin {"save", "reload"}

\* The configuration set() loaded is as the file gave it.
ConfigUntouched == config = slate_toml.config

\* set() has its configuration: line 6 has returned one.
Loaded == c_pc \notin {"Idle", "Start"} /\ c_result # CErr("load")

\* C15: set on a loaded configuration with a key outside the schema's
\* palette.* and hardware.* keys returns UnknownKey; as long as it runs and
\* when it has returned, no field of the configuration has changed, the file
\* was not written and no deployment run was started.
C15_UnknownKeyLeavesConfig ==
    (cmd.name = "set" /\ Loaded /\ cmd.key \notin SchemaKeys) =>
        /\ c_pc \in {"Match", "Done"}
        /\ c_result \in {CRunning, UnknownKey}
        /\ c_pc = "Done" => c_result = UnknownKey
        /\ ConfigUntouched
        /\ NoSaveNoReload
        /\ c_log = <<>>

\* C15 witness: set returned UnknownKey for a key of three parts and for a
\* key of the apps section.
C15_Witness ==
    /\ c_result = UnknownKey
    /\ \/ Len(split_dot(cmd.key)) = 3
       \/ split_dot(cmd.key)[1] = <<"apps">>

\* The keys set() accepts: those it does not answer with UnknownKey.
AcceptedKeys == {k \in SetKeys : split_dot(k) \in ArmPatterns}

\* C16 (as claimed): the valid keys an UnknownKey error carries are exactly
\* the keys set accepts: every accepted key is listed and every listed key
\* is accepted.
C16_ListedKeysAreAccepted ==
    c_result.err = "Unknown configuration key" =>
        /\ \A k \in AcceptedKeys : k \in Range(c_result.valid_keys)
        /\ \A k \in Range(c_result.valid_keys) : split_dot(k) \in ArmPatterns

\* The spec's name for the error of line 43.
TypeMismatch == CErr("monitor_scale must be a number")

\* C17: set hardware.monitor_scale on a loaded configuration with a value
\* that does not parse as a number returns the type error; no field of the
\* configuration has changed, the file was not written and no deployment run
\* was started.
C17_ScaleNotNumberFails ==
    (/\ cmd.name = "set"
     /\ Loaded
     /\ cmd.key = Dotted("hardware", "monitor_scale")
     /\ parse_f32(cmd.value) = {}) =>
        /\ c_pc \in {"Match", "Done"}
        /\ c_result \in {CRunning, TypeMismatch}
        /\ c_pc = "Done" => c_result = TypeMismatch
        /\ ConfigUntouched
        /\ NoSaveNoReload
        /\ c_log = <<>>

\* C17 witness: set returned the type error for a number written with a
\* comma, in a run that was to write.
C17_Witness ==
    /\ c_result = TypeMismatch
    /\ cmd.value = "1,5"
    /\ ~cmd.dry_run

\* The places of the saves and of the deployment runs in the log.
Saves == {k \in DOMAIN c_log : c_log[k].ev = "save"}
DeploymentRuns == {k \in DOMAIN c_log : c_log[k].ev = "reload" /\ ~c_log[k].dry_run}

\* C18 (as claimed): when set, wall_set or init has returned, every save it
\* made was followed by a deployment run, a reload with dry_run = false.
C18_SaveThenReload ==
    c_pc = "Done" => \A k \in Saves : \E j \in DeploymentRuns : j > k

(***************************************************************************)
(* Properties of Color::from_hex(), checked under SpecColor                *)
(***************************************************************************)
\* The characters left after a single leading '#' is stripped.
Stripped == IF hex_arg # <<>> /\ Head(hex_arg) = "#" THEN Tail(hex_arg) ELSE hex_arg

\* The call has returned, or has aborted the program.
ColorDecided == col_result # ColRunning

\* C19 (as claimed): when the characters left after stripping a single
\* leading '#' number neither 6 nor 8, parsing fails with InvalidFormat and
\* yields no color.
C19_WrongLengthIsInvalidFormat ==
    (Len(Stripped) \notin {6, 8} /\ ColorDecided) =>
        col_result = ColErr("InvalidFormat")

\* 0-9, a-f, A-F.
IsHexDigit(c) == \E v \in 0..15 : c \in {LowerHex[v + 1], UpperHex[v + 1]}

\* C20 (as claimed): when the 6 or 8 characters left after stripping a
\* leading '#' hold a character that is no hex digit, parsing fails with
\* ParseError: it returns no color and does not abort.
C20_NonHexIsParseError ==
    (/\ Len(Stripped) \in {6, 8}
     /\ \E k \in DOMAIN Stripped : ~IsHexDigit(Stripped[k])
     /\ ColorDecided) =>
        col_result = ColErr("ParseError")

\* The characters left after a single leading '#' is stripped.
StripOne(str) == IF str # <<>> /\ Head(str) = "#" THEN Tail(str) ELSE str

\* A valid color string of n digits: n hex digits of either case, with or
\* without one leading '#'.
ValidHex(str, n) ==
    /\ Len(StripOne(str)) = n
    /\ \A k \in DOMAIN StripOne(str) : IsHexDigit(StripOne(str)[k])

to_ascii_lowercase(c) ==
    IF \E v \in 0..15 : c = UpperHex[v + 1]
    THEN LowerHex[(CHOOSE v \in 0..15 : c = UpperHex[v + 1]) + 1]
    ELSE c

Lowercase(str) == [k \in DOMAIN str |-> to_ascii_lowercase(str[k])]

\* C21: for a valid 6-digit string h, parsing never fails, the bare-hex form
\* emitted for h is '#' followed by the six digits of h in lowercase, and
\* parsing that output and emitting again gives the same string.
C21_HexRoundTrip ==
    ValidHex(col_calls[1], 6) =>
        /\ col_result.tag \in {"Running", "Ok"}
        /\ \A k \in DOMAIN col_out :
              col_out[k].hex = <<"#">> \o Lowercase(StripOne(col_calls[1]))

\* C21 witness: a string without '#' that holds an uppercase digit was
\* parsed, emitted, parsed again and emitted again.
C21_Witness ==
    /\ ValidHex(col_calls[1], 6)
    /\ Head(col_calls[1]) # "#"
    /\ "F" \in Range(col_calls[1])
    /\ Len(col_out) = 2

\* The last two hex digits a string holds.
LastTwoHex(str) ==
    LET digits == SelectSeq(str, IsHexDigit)
    IN  SubSeq(digits, Len(digits) - 1, Len(digits))

IsLowerHex(str) == \A k \in DOMAIN str : str[k] \in Range(LowerHex)

\* The byte the last two digits of a valid string stand for.
AlphaDigits(str) == digits_value(LastTwoHex(StripOne(str)), 0)

\* C22: the #rrggbbaa form and the rrggbbaa form of a parsed color end in
\* two lowercase hex digits that stand for the alpha parsed; for a valid
\* 8-digit string that alpha is the byte of its last two digits, for a valid
\* 6-digit string it is 255, emitted as ff.
C22_AlphaRoundTrip ==
    (col_result.tag = "Ok" /\ Len(col_out) = Len(col_calls)) =>
        LET out == col_out[Len(col_out)] IN
        /\ \A form \in {out.rofi, out.hyprland} :
              /\ IsLowerHex(LastTwoHex(form))
              /\ digits_value(LastTwoHex(form), 0) = col_result.color.a
        /\ ValidHex(hex_arg, 8) => col_result.color.a = AlphaDigits(hex_arg)
        /\ ValidHex(hex_arg, 6) =>
              /\ col_result.color.a = 255
              /\ LastTwoHex(out.rofi) = <<"f", "f">>
              /\ LastTwoHex(out.hyprland) = <<"f", "f">>

\* C22 witness: an 8-digit string with an alpha other than 0 and 255 was
\* parsed and emitted.
C22_Witness ==
    /\ ValidHex(hex_arg, 8)
    /\ Len(col_out) = 1
    /\ col_result.tag = "Ok"
    /\ col_result.color.a \notin {0, 255}

\* str is prefix followed by two lowercase hex digits for each of bytes.
HexForm(str, prefix, bytes) ==
    /\ Len(str) = Len(prefix) + 2 * Len(bytes)
    /\ SubSeq(str, 1, Len(prefix)) = prefix
    /\ IsLowerHex(SubSeq(str, Len(prefix) + 1, Len(str)))
    /\ \A k \in DOMAIN bytes :
          digits_value(SubSeq(str, Len(prefix) + 2 * k - 1, Len(prefix) + 2 * k), 0)
              = bytes[k]

\* str is rgba( ... ) around four fields that commas part.
CssForm(str) ==
    /\ Len(str) > 6
    /\ SubSeq(str, 1, 5) = <<"r", "g", "b", "a", "(">>
    /\ str[Len(str)] = ")"
    /\ Cardinality({k \in DOMAIN str : str[k] = ","}) = 3

\* C23 (as claimed): the five conversions of a parsed color are an
\* rgba(r,g,b,a) string, '#' and the digits of r, g, b, a, 0x and the digits
\* of r, g, b, '#' and the digits of r, g, b, and the digits of r, g, b, a
\* with nothing around them; two lowercase hex digits for every byte.
C23_FiveForms ==
    (col_result.tag = "Ok" /\ Len(col_out) = Len(col_calls)) =>
        LET out == col_out[Len(col_out)]
            c   == col_result.color
        IN  /\ CssForm(out.css_rgba)
            /\ HexForm(out.rofi, <<"#">>, <<c.r, c.g, c.b, c.a>>)
            /\ HexForm(out.plymouth, <<"0", "x">>, <<c.r, c.g, c.b>>)
            /\ HexForm(out.hex, <<"#">>, <<c.r, c.g, c.b>>)
            /\ HexForm(out.hyprland, <<>>, <<c.r, c.g, c.b, c.a>>)

(***************************************************************************)
(* Properties of SlateConfig::load(), checked under SpecLoad               *)
(***************************************************************************)
\* The spec's names for the two errors of load.
NotFound == CErr("No such file or directory")
ParseError == CErr("toml::de::Error")

\* The fields the documentation gives a default, by section.
OptionalFields ==
    [palette  |-> {"mode", "bg_surface", "bg_overlay", "foreground_dim", "accent_bright"},
     hardware |-> {"font_family", "wallpaper"}]
RequiredFields ==
    [palette  |-> PaletteFields \ OptionalFields.palette,
     hardware |-> HardwareFields \ OptionalFields.hardware]

\* The file has both tables and the app list, every field it holds is of
\* its type and no required field is missing.
WellFormed ==
    /\ slate_toml.state = "toml"
    /\ slate_toml.has_apps
    /\ \A s \in {"palette", "hardware"} :
          /\ slate_toml[s] # NoTable
          /\ RequiredFields[s] \subseteq DOMAIN slate_toml[s]
          /\ \A f \in DOMAIN slate_toml[s] :
                slate_toml[s][f].type \in
                    (IF f = "monitor_scale" THEN {"float", "integer"} ELSE {"string"})

\* What a field written as v reads as.
AsWritten(v) ==
    CASE v.type = "string"  -> v.text
      [] v.type = "float"   -> F32(v.text)
      [] v.type = "integer" -> F32(v.text \o ".0")

\* C24: when load has returned: from a well-formed file it returns a config
\* in which every field the file holds is as written and every optional field
\* it lacks has its documented default; from a malformed file or one that
\* lacks a required field it returns ParseError, from a missing file
\* NotFound, and then no config.
C24_LoadDefaults ==
    c_pc = "Done" =>
        /\ WellFormed =>
              /\ c_result = COk
              /\ \A s \in {"palette", "hardware"} :
                    /\ \A f \in DOMAIN slate_toml[s] :
                          config[s][f] = AsWritten(slate_toml[s][f])
                    /\ \A f \in OptionalFields[s] \ DOMAIN slate_toml[s] :
                          {config[s][f]} = serde_default(f)
        /\ (slate_toml # NoFile /\ ~WellFormed) =>
              c_result = ParseError /\ config = <<>>
        /\ slate_toml = NoFile =>
              c_result = NotFound /\ config = <<>>

\* C24 witness: a file without any optional field, which are seven, was
\* loaded.
C24_Witness ==
    /\ c_pc = "Done"
    /\ c_result = COk
    /\ DOMAIN slate_toml.palette = RequiredFields.palette
    /\ DOMAIN slate_toml.hardware = RequiredFields.hardware

\* C24 witness: a file without a required field was refused.
C24_WitnessMissing ==
    /\ c_pc = "Done"
    /\ c_result = ParseError
    /\ slate_toml.state = "toml"
    /\ slate_toml.palette # NoTable
    /\ "accent" \notin DOMAIN slate_toml.palette

(***************************************************************************)
(* Properties of two set() at the same time, checked under SpecSetRace     *)
(***************************************************************************)
Happened(p, ev) == \E i \in DOMAIN order : order[i] = Event(p, ev)
Before(e1, e2) ==
    \E i, j \in DOMAIN order : i < j /\ order[i] = e1 /\ order[j] = e2

\* One call loaded the file only after the other had saved it.
OneAfterTheOther == \E p \in Procs : Before(Event(Other(p), "save"), Event(p, "load"))

\* The file holds the value p set.
HoldsChange(p) ==
    /\ load_ok(shared)
    /\ shared.config = store(shared.config, procs[p].key, procs[p].value)

BothSaved == \A p \in Procs : procs[p].pc = "Done" /\ Happened(p, "save")

\* C28: when two set calls on different keys have both saved and returned:
\* if one loaded after the other had saved, the file holds both changes; if
\* both loaded before either saved, the file does not hold both, and where
\* it can be loaded it holds the change of one and not of the other.
C28_LostUpdate ==
    BothSaved =>
        /\ OneAfterTheOther => HoldsChange(1) /\ HoldsChange(2)
        /\ ~OneAfterTheOther =>
              /\ ~(HoldsChange(1) /\ HoldsChange(2))
              /\ load_ok(shared) => HoldsChange(1) \/ HoldsChange(2)

\* C28 witness: both calls saved and returned Ok, and the file holds the
\* change of the second and not of the first.
C28_Witness ==
    /\ BothSaved
    /\ \A p \in Procs : procs[p].result = COk
    /\ HoldsChange(2)
    /\ ~HoldsChange(1)

\* C28 witness: one call after the other, both changes kept.
C28_WitnessSerial ==
    /\ BothSaved
    /\ OneAfterTheOther
    /\ HoldsChange(1) /\ HoldsChange(2)

(***************************************************************************)
(* Properties of two reload() runs, checked under SpecReloadRace           *)
(***************************************************************************)
\* Run r has returned, and the other run either never started or had
\* returned before r started: the files are as r left them.
RanAlone(r) ==
    /\ procs[r].pc = "Done"
    /\ \/ procs[Other(r)].pc = "Idle"
       \/ Before(Event(Other(r), "end"), Event(r, "start"))

OwnText(r) ==
    \A a \in DOMAIN shared.apps : shared.fs[Target(shared.apps[a])] = RunText(r, a)

\* No temp path of the list is the temp path of another app or a destination.
RaceTempsApart ==
    \A a, b \in DOMAIN shared.apps :
        /\ a # b => TempOf(Target(shared.apps[a])) # TempOf(Target(shared.apps[b]))
        /\ TempOf(Target(shared.apps[a])) # Target(shared.apps[b])

\* C29: of two runs executed one after the other, each that returns Ok
\* leaves every destination holding the text that run rendered for it.
C29_SequentialRunsKeepOwn ==
    \A r \in Procs : RanAlone(r) /\ procs[r].result = COk => OwnText(r)

\* The same with the temp paths of the list apart from each other and from
\* the destinations.
C29_SequentialRunsKeepOwnApart ==
    \A r \in Procs : RanAlone(r) /\ procs[r].result = COk /\ RaceTempsApart => OwnText(r)

\* Two runs over one app at the same time: the rename of run 2 finds the
\* temp file gone, which only run 1 can have moved.
C29_RenameFoundTempGone ==
    /\ Len(shared.apps) = 1
    /\ procs[2].result = CErr("rename: No such file or directory")
    /\ procs[1].result = COk

\* Two runs over one app at the same time: run 1 returned Ok and the
\* destination holds the text run 2 rendered, before run 2 renamed anything.
C29_DestinationHoldsOtherRun ==
    /\ Len(shared.apps) = 1
    /\ procs[1].result = COk
    /\ procs[2].pc = "Committing" /\ procs[2].idx = 1
    /\ shared.fs[Target(shared.apps[1])] = RunText(2, 1)

\* A run executed after the other has returned, itself returning Ok with
\* every destination holding its own text.
C29_SecondRunKeepsOwn ==
    /\ Before(Event(1, "end"), Event(2, "start"))
    /\ procs[1].result = COk
    /\ procs[2].result = COk
    /\ OwnText(2)

(***************************************************************************)
(* Further properties of trace_to_physical_partition(), under SpecTrace    *)
(***************************************************************************)
\* The invocation at hand is on a device that sysfs knows and whose slaves
\* directory exists and lists nothing.
AtEmptySlaves ==
    /\ TraceActive
    /\ real_path(t_arg).dir # "/"
    /\ sys_path_exists(device_name(t_arg))
    /\ sysfs[device_name(t_arg)].slaves_dir
    /\ sysfs[device_name(t_arg)].slaves = {}

\* C31: an invocation on a device whose slaves directory exists and is empty
\* returns Ok with the path of that very device and goes no further.
C31_EmptySlavesTerminal ==
    [][AtEmptySlaves =>
          /\ t_result' = TOk(DevPath("/dev", device_name(t_arg)))
          /\ t_stack' = t_stack]_vars

\* C31 witness: a trace that went through one layer and ended at a device
\* with an empty slaves directory.
C31_Witness ==
    /\ t_result.tag = "Ok"
    /\ Len(t_stack) = 1
    /\ sysfs[t_result.path.name].slaves_dir
    /\ sysfs[t_result.path.name].slaves = {}

(***************************************************************************)
(* The dedup key of reload(), checked under SpecDistinct                   *)
(***************************************************************************)
\* The signals that have a key: the three command variants and a Signal to
\* a target of any name, the names of the command variants among them.
TargetNames == Targets \cup {"hyprpaper", "makoctl", "signal:waybar", ""}
KeyedSignals ==
    {SigHyprctl, SigHyprpaper, SigMakoctl} \cup {SigSignal(s) : s \in TargetNames}

\* The signals the actions dispatched so far were sent for.
DispatchedSignals == {dispatched[j].signal : j \in DOMAIN dispatched}

\* C32: two signals have the same dedup key only when they are the same
\* variant with the same target name; so in a run that committed and
\* returned, the signal of every enabled app has been dispatched, by that
\* app or by an earlier one with that very signal.
C32_KeyInjective ==
    /\ \A s, t \in KeyedSignals : sig_key(s) = sig_key(t) => s = t
    /\ Committed =>
          \A k \in Range(EnabledSeq) :
              apps[k].reload_signal # SigNone =>
                  apps[k].reload_signal \in DispatchedSignals

\* C32 witness: a committed run that dispatched the hyprctl command and a
\* signal to a process named hyprctl, in either order.
C32_Witness ==
    /\ Committed
    /\ SigHyprctl \in DispatchedSignals
    /\ SigSignal("hyprctl") \in DispatchedSignals

(***************************************************************************)
(* Further properties of set(), checked under SpecCmd                      *)
(***************************************************************************)
\* The fields a key of two parts can address.
FieldAddresses ==
    {[section |-> s, field |-> f] :
        s \in {"palette", "hardware"},
        f \in DOMAIN FileConfig("manual").palette \cup DOMAIN FileConfig("manual").hardware}

\* C33: whenever set writes a configuration to the file, the file held a
\* configuration before, the key addresses a field, and what is written
\* differs from what the file held in that field at most: every other field
\* of palette and hardware and the whole app list are as they were loaded.
C33_SetChangesOnlyItsField ==
    [][(cmd.name = "set" /\ slate_toml' # slate_toml /\ slate_toml'.state = "valid") =>
          /\ load_ok(slate_toml)
          /\ \E a \in FieldAddresses :
                /\ cmd.key = Dotted(a.section, a.field)
                /\ a.field \in DOMAIN slate_toml.config[a.section]
                /\ slate_toml'.config =
                      [slate_toml.config EXCEPT
                          ![a.section][a.field] = slate_toml'.config[a.section][a.field]]
                /\ slate_toml'.config.apps = slate_toml.config.apps]_vars

\* C33 witness: set hardware.wallpaper has saved and returned; the file holds
\* the new wallpaper, the mode it was loaded with and the app list.
C33_Witness ==
    /\ cmd.name = "set"
    /\ c_result = COk
    /\ ~cmd.dry_run
    /\ cmd.key = Dotted("hardware", "wallpaper")
    /\ slate_toml.config.hardware.wallpaper = cmd.value
    /\ slate_toml.config.palette.mode = "matugen"
    /\ slate_toml.config.apps = FileApps

\* C34: in a set with dry_run = true no step changes the file, and the log
\* never holds a save or a reload, of which the reload actions would come.
C34_DryRunWritesNothing ==
    [][(cmd.name = "set" /\ cmd.dry_run) =>
          /\ slate_toml' = slate_toml
          /\ \A k \in DOMAIN c_log' : c_log'[k].ev \notin {"save", "reload"}]_vars

\* C34 witness: a dry run of set palette.mode matugen on a file in mode
\* manual returned Ok, having printed the new configuration; the file is as
\* it was.
C34_Witness ==
    /\ cmd = SetCmd(Dotted("palette", "mode"), "matugen", TRUE)
    /\ c_result = COk
    /\ c_log = <<Printed([FileConfig("manual") EXCEPT !.palette.mode = "matugen"])>>
    /\ slate_toml = Saved(FileConfig("manual"))

\* C34 witness: a dry run with a key no arm matches returned UnknownKey.
C34_WitnessInvalidKey ==
    /\ cmd.name = "set"
    /\ cmd.dry_run
    /\ c_result = UnknownKey
    /\ c_log = <<>>

\* The error of set when the deployment run it started failed: reload()'s
\* own error, handed on by `?` (set.rs:73).
ReloadFailed == CErr("reload")

\* C35: when set has returned the error of the deployment run, it had saved
\* and then started that run, and the file holds the configuration set
\* saved, the new value of the addressed field in it.
C35_SaveNotRolledBack ==
    (cmd.name = "set" /\ c_pc = "Done" /\ c_result = ReloadFailed) =>
        /\ c_log = <<Save, Reload(FALSE)>>
        /\ slate_toml = Saved(config)
        /\ \E a \in FieldAddresses :
              /\ cmd.key = Dotted(a.section, a.field)
              /\ IF a.field = "monitor_scale"
                 THEN slate_toml.config[a.section][a.field] \in parse_f32(cmd.value)
                 ELSE slate_toml.config[a.section][a.field] = cmd.value

\* C35 witness: set palette.accent returned the error of the deployment run
\* and the file holds the new accent, not the one it was loaded with.
C35_Witness ==
    /\ cmd.name = "set"
    /\ c_result = ReloadFailed
    /\ cmd.key = Dotted("palette", "accent")
    /\ slate_toml.config.palette.accent = "#5f87af"
    /\ FileConfig("manual").palette.accent # "#5f87af"

(***************************************************************************)
(* Properties of a sequence of set(), checked under SpecSetSeq             *)
(***************************************************************************)
Modes == {"manual", "matugen"}
InvalidMode == CErr("palette.mode must be \"manual\" or \"matugen\"")

\* C36: through any sequence of set calls on a file whose mode was manual
\* or matugen, the file, whenever it holds a configuration, holds one of the
\* two modes; and a call of set palette.mode with any other value saves
\* nothing, starts no run and returns nothing but the error of the load or
\* the error that names the two modes.
C36_ModeStaysValid ==
    /\ load_ok(slate_toml) => slate_toml.config.palette.mode \in Modes
    /\ (cmd.key = Dotted("palette", "mode") /\ cmd.value \notin Modes) =>
          /\ c_log = <<>>
          /\ c_result \in {CRunning, CErr("load"), InvalidMode}
          /\ c_pc = "Done" /\ c_result # CErr("load") => c_result = InvalidMode

\* C36 witness: after an earlier call that saved (the accent is not the
\* one written by hand), a call of set palette.mode Manual was refused, and
\* the file holds the mode matugen.
C36_Witness ==
    /\ cmd = SetCmd(Dotted("palette", "mode"), "Manual", FALSE)
    /\ c_result = InvalidMode
    /\ slate_toml.state = "valid"
    /\ slate_toml.config.palette.mode = "matugen"
    /\ slate_toml.config.palette.accent = "manual"

(***************************************************************************)
(* Further properties of get_partuuid() and get_uuid(), under SpecStableId *)
(***************************************************************************)
\* Entries that are no symlink, or whose target cannot be canonicalized.
Unresolvable == {e \in DOMAIN id_dir.entries : ResolvesTo(e) = {}}

\* C37: a step of the scan that takes an entry which is no symlink or leads
\* nowhere leaves the lookup running; and a lookup over a directory with
\* such entries that read the listing without an io error returns the name
\* of a matching entry if there is one and IdNotFound if there is none.
C37_BadEntriesSkipped ==
    /\ [][(id_pc = "Scan" /\ \E e \in id_todo \cap Unresolvable : id_todo' = id_todo \ {e}) =>
             id_pc' = "Scan" /\ id_result' = IdRunning]_vars
    /\ [](/\ id_pc = "Done"
          /\ Unresolvable # {}
          /\ id_result \notin {IdErr("io"), IdErr("does not exist"),
                               IdErr("Could not resolve device path")}
          => IF MatchingEntries = {} THEN id_result = IdNotFound
                                     ELSE id_result.tag = "Ok" /\ id_result.val \in MatchingEntries)

\* C37 witness: the scan passed over an entry that is no symlink or leads
\* nowhere and then returned the name of the matching entry.
C37_Witness ==
    /\ id_result.tag = "Ok"
    /\ \E e \in Unresolvable : e \notin id_todo

\* C37 witness: a directory of a plain file and a dangling link was read to
\* its end: IdNotFound.
C37_WitnessNotFound ==
    /\ id_result = IdNotFound
    /\ \E e, f \in Unresolvable : ~id_dir.entries[e].link /\ id_dir.entries[f].link

(***************************************************************************)
(* Properties of forge(), checked under SpecForge                          *)
(***************************************************************************)
\* The checks of preflight::run() before the prompt.
HostChecks == Range(PreflightChecks) \ {"confirm"}

\* The operator's line, its surrounding whitespace cut off, is the device
\* name and nothing else.
TypedDeviceName == f_in.stdin.ok /\ trim(f_in.stdin.line) = <<f_in.device>>

DestructiveRun == \E k \in DOMAIN f_log : f_log[k].cmd \in Destructive

\* C38: forge has run a command only if every check of the preflight passed
\* and the operator typed the device name; with a check that fails or any
\* other line typed, forge has run no command at all and returns the error
\* of the preflight.
C38_NoDestructionUnconfirmed ==
    /\ f_log # <<>> => (\A c \in HostChecks : passes(c)) /\ TypedDeviceName
    /\ DestructiveRun => f_log[1].cmd = "sgdisk --zap-all"
    /\ ((\E c \in HostChecks : ~passes(c)) \/ ~TypedDeviceName) =>
          /\ f_log = <<>>
          /\ f_pc \in {"Preflight", "Done"}
          /\ f_pc = "Done" => f_result.err \in Range(PreflightChecks)

\* C38 witness: every check passed, the operator typed the device name
\* between a blank and a tab, and forge formatted the device.
C38_Witness ==
    /\ f_in.stdin.line = <<" ", f_in.device, "\t", "\n">>
    /\ \E k \in DOMAIN f_log : f_log[k] = Ran("mkfs.btrfs", f_in.device, TRUE)

\* C38 witness: on a host that passes every check, the line "<device> yes"
\* aborted forge.
C38_WitnessMismatch ==
    /\ f_in.stdin.line = <<f_in.device, " ", "yes", "\n">>
    /\ f_result = FErr("confirm")
    /\ f_log = <<>>

(***************************************************************************)
(* Properties of MountGuard, checked under SpecGuard                       *)
(***************************************************************************)
\* The mount and unmount calls made on the guard, and the unmounts of drop,
\* each in order.
GuardCalls == SelectSeq(f_log, LAMBDA e : e.cmd \in {"mount", "umount"})
DropUnmounts == SelectSeq(f_log, LAMBDA e : e.cmd = "umount -l")

Highest(S) == CHOOSE k \in S : \A j \in S : j <= k

\* The mounts in place after the first k calls, each named by the place of
\* the call that made it: a mount that succeeded is in place until an umount
\* of its target succeeds, which takes off the one made last on that target.
RECURSIVE Live(_)
Live(k) ==
    IF k = 0 THEN {}
    ELSE LET e == GuardCalls[k]
             before == Live(k - 1)
             on_target == {i \in before : GuardCalls[i].target = e.target}
         IN  IF e.cmd = "mount" /\ e.ok THEN before \cup {k}
             ELSE IF e.cmd = "umount" /\ e.ok /\ on_target # {}
             THEN before \ {Highest(on_target)}
             ELSE before

\* The targets of a set of mounts, the one made last first.
RECURSIVE LastFirst(_)
LastFirst(S) ==
    IF S = {} THEN <<>>
    ELSE <<GuardCalls[Highest(S)].target>> \o LastFirst(S \ {Highest(S)})

Outstanding == LastFirst(Live(Len(GuardCalls)))

DropTargets == [k \in DOMAIN DropUnmounts |-> DropUnmounts[k].target]

\* C39: whatever calls were made on the guard, drop unmounts the targets
\* mounted through it and not unmounted through it since, each once, the
\* one mounted last first: before the drop nothing is unmounted by it,
\* during the drop its unmounts are a prefix of that order, and after it
\* they are the whole of it.
C39_DropUnmountsOutstanding ==
    /\ f_pc \notin {"Drop", "Done"} => DropTargets = <<>>
    /\ f_pc = "Drop" => IsPrefix(DropTargets, Outstanding) /\ Len(DropTargets) = Len(guard) - f_idx
    /\ f_pc = "Done" => DropTargets = Outstanding

\* C39 witness: three mounts, the second of them unmounted again, and a
\* drop that unmounted the third and then the first.
C39_Witness ==
    /\ f_pc = "Done"
    /\ GuardCalls = << Ran("mount", "/mnt", TRUE), Ran("mount", "/mnt/home", TRUE),
                       Ran("umount", "/mnt/home", TRUE), Ran("mount", "/mnt/home", TRUE) >>
    /\ DropTargets = <<"/mnt/home", "/mnt">>

\* C39 witness: a mount that failed and an umount that failed; the drop
\* unmounted the one target that was mounted, once.
C39_WitnessFailures ==
    /\ f_pc = "Done"
    /\ GuardCalls = << Ran("mount", "/mnt", TRUE), Ran("mount", "/mnt/home", FALSE),
                       Ran("umount", "/mnt", FALSE) >>
    /\ DropTargets = <<"/mnt">>

(***************************************************************************)
(* The specification of reload()                                           *)
(***************************************************************************)
Init ==
    /\ apps \in AppLists \cup {InitApps}
    /\ dry_run \in BOOLEAN
    /\ fs = InitFs
    /\ fsops = <<>>
    /\ stdout = <<>>
    /\ dispatched = <<>>
    /\ pc = "Setup"
    /\ idx = 1
    /\ renders = <<>>
    /\ temp_files = <<>>
    /\ executed_signals = {}
    /\ result = Running
    /\ TraceIdle
    /\ IdIdle
    /\ MountIdle
    /\ CmdIdle
    /\ ColorIdle
    /\ RaceIdle
    /\ ForgeIdle

Next ==
    \/ SetupFail /\ UNCHANGED notReload
    \/ SetupOk /\ UNCHANGED notReload
    \/ RenderSkip /\ UNCHANGED notReload
    \/ RenderOk /\ UNCHANGED notReload
    \/ RenderFail /\ UNCHANGED notReload
    \/ DryRunExit /\ UNCHANGED notReload
    \/ StartStaging /\ UNCHANGED notReload
    \/ StageMkdirFail /\ UNCHANGED notReload
    \/ StageWriteFail /\ UNCHANGED notReload
    \/ StageOk /\ UNCHANGED notReload
    \/ StartCommit /\ UNCHANGED notReload
    \/ CommitRenameFail /\ UNCHANGED notReload
    \/ CommitOk /\ UNCHANGED notReload
    \/ CommitStripPrefixFail /\ UNCHANGED notReload
    \/ StartSignals /\ UNCHANGED notReload
    \/ SignalNone /\ UNCHANGED notReload
    \/ SignalDuplicate /\ UNCHANGED notReload
    \/ SignalSend /\ UNCHANGED notReload
    \/ Finish /\ UNCHANGED notReload

Spec == Init /\ [][Next]_vars

\* reload() is one thread of straight-line code and loops over finite lists:
\* a run that can take a step takes one, as long as the system calls and the
\* commands it waits for return.
SpecFair == Spec /\ WF_vars(Next)

(***************************************************************************)
(* reload() over app lists with a directory of its own for each app         *)
(***************************************************************************)
\* The destination of the app at place k: <k>/config below ~/.config.
DistinctPath(k) == Path(FALSE, ToString(k) \o "/config", "")

\* The signals of these lists: none, a command, and a signal to either
\* target, one of which goes by the command's name.
DistinctSignals == {SigNone, SigHyprctl} \cup {SigSignal(s) : s \in Targets}

\* Up to MaxDistinct apps, each at the destination of its place, and the
\* lists of one app of Init.
DistinctLists ==
    UNION {{[k \in 1..n |-> [enabled |-> e[k], config_path |-> DistinctPath(k),
                             reload_signal |-> sg[k]]] :
               e \in [1..n -> BOOLEAN], sg \in [1..n -> DistinctSignals]} :
           n \in 0..MaxDistinct}
    \cup [1..1 -> App]

DistinctFs ==
    [p \in AllPaths \cup {DistinctPath(k) : k \in 1..MaxDistinct}
            \cup {TempOf(DistinctPath(k)) : k \in 1..MaxDistinct} |->
        IF p \in ConfigPaths \cup {DistinctPath(k) : k \in 1..MaxDistinct}
        THEN Old ELSE Absent]

DistinctInit ==
    /\ apps \in DistinctLists
    /\ dry_run \in BOOLEAN
    /\ fs = DistinctFs
    /\ fsops = <<>>
    /\ stdout = <<>>
    /\ dispatched = <<>>
    /\ pc = "Setup"
    /\ idx = 1
    /\ renders = <<>>
    /\ temp_files = <<>>
    /\ executed_signals = {}
    /\ result = Running
    /\ TraceIdle
    /\ IdIdle
    /\ MountIdle
    /\ CmdIdle
    /\ ColorIdle
    /\ RaceIdle
    /\ ForgeIdle

SpecDistinct == DistinctInit /\ [][Next]_vars

SpecDistinctFair == SpecDistinct /\ WF_vars(Next)

====
